---- MODULE Spec2Model ----
(***************************************************************************)
(* Room scheduler (GameRoom) and world simulator (GameWorld, Player,       *)
(* Projectile) of the tank game server, as a state machine.                *)
(*                                                                         *)
(* Time is counted in units of one TICK_INTERVAL (1000/60 ms).  The        *)
(* durations of constants.ts keep their names and their order of size but  *)
(* are scaled to a few ticks; MAX_PLAYERS is scaled from 10 to 3, the      *)
(* length of the input queue from 10 to 2 and the hit points so that a     *)
(* tank survives one direct hit but not a direct hit and a splash.         *)
(* Positions and velocities are not modelled: of the kinematics a tank     *)
(* keeps the number of steps it was driven and whether its turret angle is *)
(* a number, and what the geometry decides (which projectile meets which   *)
(* tank, ground or cover in a tick) is an input of the tick, drawn from a  *)
(* bounded set.                                                            *)
(***************************************************************************)
EXTENDS Integers, Sequences, FiniteSets, TLC

\* ---------------------------------------------------------------- constants
MAX_PLAYERS == 3
MIN_PLAYERS == 2
TICK_INTERVAL == 1
ROUND_DURATION == 2
AFK_TIMEOUT == 1
AFK_CHECK_INTERVAL == 2
SNAPSHOT_INTERVAL == 2
RELOAD_TIME == 2
PROJECTILE_TTL == 2
RESPAWN_DELAY == 2
TANK_MAX_HP == 3
DIRECT_HIT_DAMAGE == 2
SPLASH_DAMAGE == 1
INPUT_QUEUE_LIMIT == 2
FIRST_PLAYER_ID == 1
FIRST_AI_ID == 100
\* angles are counted in twelfths of a half turn, and TURRET_TURN_RATE is the
\* turn of the turret in one tick
PI == 12
TURRET_YAW_MAX == (PI * 3) \div 4
TURRET_TURN_RATE == 2
GUN_PITCH_MIN == -1
GUN_PITCH_MAX == 4
\* spawn points lie on a line; a score is counted in cooldown penalties
SPAWN_CANDIDATE_COUNT == 3
SPAWN_TOP_K == 2
SPAWN_COOLDOWN_RADIUS == 2
SPAWN_WEIGHT_RECENT == 1
maxRecentSpawns == 3
\* AIPlayer: the difficulty in ticks and in steps of distance, and the
\* thresholds of updateState, update and doEngage
reactionTime == 2
fireDelay == 2
engageRange == 2
retreatHp == 2
retreatDist == 2
recoverHp == 2
aimThreshold == 1
\* the map and the tanks on one line across it, in steps: half the map's
\* width, the radius of a tank, the place and the radius of the one cover, and
\* the farthest that a tank drives in a tick
HALF_WIDTH == 6
TANK_COLLISION_RADIUS == 2
COVER_X == -4
COVER_RADIUS == 1
MAX_STEP == 2

\* ------------------------------------------------------------------- bounds
MaxHumanIds == 3       \* human ids ever handed out by one room
MaxAIIds == 4          \* AI ids ever handed out by one room
MaxTick == 3           \* world ticks between two world resets
MaxProjectiles == 2    \* projectiles ever fired in one room
MaxTarget == 15        \* size of the angles that a command asks for
MaxPoint == 4          \* the spawn zones hold the points 0 .. MaxPoint
MaxScore == 2          \* largest score of a candidate before the cooldown penalty
MaxDist == 3           \* distances from the AI controller to a human are 1 .. MaxDist
MaxSeq == 5            \* commands that one AI controller ever issues
MaxMoves == 3          \* world ticks that move the two tanks on the line

Warmup == "warmup"
InRound == "in_round"
RoundEnd == "round_end"

VARIABLES
    state,            \* GameRoom.state
    clients,          \* GameRoom.clients: ids of the connected humans
    aiBots,           \* GameRoom.aiBots: ids of the AI controllers, oldest first
    roundTimer,       \* GameRoom.roundTimer
    tickTimer,        \* GameRoom.tickTimer: TRUE while the setInterval driver is set
    nextPlayerId,     \* GameRoom.nextPlayerId
    aiIdCounter,      \* GameRoom.aiIdCounter
    idleTime,         \* per human: Date.now() - lastInputTime.get(id), capped at AFK_TIMEOUT
    lastAFKCheck,     \* GameRoom.lastAFKCheck
    restartTimers,    \* pending setTimeout(restartRound) callbacks of endRound
    registered,       \* the room is in GameServer.rooms (FALSE after destroy)
    players,          \* GameWorld.players, in Map order
    projectiles,      \* GameWorld.projectiles, in Map order
    respawnQueue,     \* GameWorld.respawnQueue
    currentTick,      \* GameWorld.currentTick
    snapshotId,       \* GameWorld.snapshotId
    nextProjectileId, \* GameWorld.nextProjectileId
    out,              \* messages sent to clients by the last operation, in order
    joinResult,       \* <<id>> or <<0>> (null): what addPlayer returned, if the last operation was one
    removals,         \* the removePlayer calls of the last operation, in order
    logouts,          \* what the last operation handed to Database.onPlayerLogout, in order
    lastOp,           \* the name of the last operation
    detached,         \* Player objects of AI controllers that destroy() took out of the world
    tank,             \* turretYaw and gunPitch of one combatant, and its lastInput
    sameTicks,        \* how many commands in a row, up to the last one, asked that combatant for the same turret yaw; up to FullTravelTicks
    recentSpawns,     \* SpawnManager.recentSpawns, oldest first
    selected,         \* <<point>>: what the last selectSpawnPoint returned
    position,         \* the x coordinates of two live combatants on one line across the map, in parts of a step
    fieldTicks,       \* the world ticks that have moved them
    ai,               \* the fields of one AIPlayer
    scene,            \* what the world shows to that controller: its tank, the humans, its aim error
    issued,           \* the commands that the controller pushed in the last operation
    aimedTicks,       \* tick time of the controller's updates, up to the last one, that all saw the aim error below the threshold; up to fireDelay
    heldTicks,        \* tick time of the controller's updates since it took its present target, up to reactionTime
    aiOp,             \* "update" if the last operation was an update of the controller
    returned,         \* the events that world.update() returned in the last operation, if it was a tick
    lastSnapshot      \* the snapshotId of the last snapshot that the first human was sent (0: none, or it left)

\* the variables of the room and of its world, and what is recorded of the
\* last operation
gameVars ==
    <<state, clients, aiBots, roundTimer, tickTimer, nextPlayerId, aiIdCounter,
      idleTime, lastAFKCheck, restartTimers, registered, players, projectiles,
      respawnQueue, currentTick, snapshotId, nextProjectileId, out, joinResult,
      removals, logouts, lastOp, detached, returned, lastSnapshot>>

\* the variables of the parts that are modelled on their own
aiVars == <<ai, scene, issued, aimedTicks, heldTicks, aiOp>>

turretVars == <<tank, sameTicks>>

fieldVars == <<position, fieldTicks>>

partVars == <<turretVars, recentSpawns, selected, aiVars, fieldVars>>

vars == <<gameVars, partVars>>

\* ------------------------------------------------------------------ helpers
Max(a, b) == IF a >= b THEN a ELSE b
Min(a, b) == IF a <= b THEN a ELSE b

RECURSIVE SeqSet(_)
SeqSet(s) == IF s = <<>> THEN {} ELSE {Head(s)} \cup SeqSet(Tail(s))

RECURSIVE Filter(_, _)
\* the subsequence of s of the elements whose id is in keep
Filter(s, keep) ==
    IF s = <<>> THEN <<>>
    ELSE IF Head(s).id \in keep THEN <<Head(s)>> \o Filter(Tail(s), keep)
         ELSE Filter(Tail(s), keep)

RECURSIVE Without(_, _)
\* Map.delete(id) on a Map of ids kept as a sequence
Without(s, id) ==
    IF s = <<>> THEN <<>>
    ELSE IF Head(s) = id THEN Without(Tail(s), id)
         ELSE <<Head(s)>> \o Without(Tail(s), id)

RECURSIVE Ascending(_)
\* the elements of a finite set of integers, smallest first
Ascending(S) ==
    IF S = {} THEN <<>>
    ELSE LET m == CHOOSE x \in S : \A y \in S : x <= y
         IN <<m>> \o Ascending(S \ {m})

Ids(ps) == {ps[i].id : i \in 1..Len(ps)}
Has(ps, id) == id \in Ids(ps)
Get(ps, id) == ps[CHOOSE i \in 1..Len(ps) : ps[i].id = id]
Put(ps, p) == [i \in 1..Len(ps) |-> IF ps[i].id = p.id THEN p ELSE ps[i]]
\* Map.delete(id) on a Map of records
Delete(ps, id) == Filter(ps, Ids(ps) \ {id})

\* ------------------------------------------------------------------- Player
\* An InputCmd as JSON.parse delivers it: the movement flags (forward stands
\* for them), the turret target, which is a number or missing, fire, and the
\* sequence number, which is a number (written as its digits) or missing.  The
\* senders of the model number a command that asks to fire "2" and one that
\* does not "1".
Cmd(forward, fire) ==
    [forward |-> forward, turretYaw |-> "number", fire |-> fire,
     seq |-> IF fire THEN "2" ELSE "1"]

\* a command object that lacks its numeric fields
MalformedCmd ==
    [forward |-> FALSE, turretYaw |-> "undefined", fire |-> FALSE, seq |-> "undefined"]

\* clamp(value, min, max) = Math.max(min, Math.min(max, value)) on a number, on
\* undefined and on NaN
clamp(value) == IF value = "number" THEN "number" ELSE "NaN"

NewPlayer(id, isBot) ==
    [id |-> id, isBot |-> isBot, hp |-> TANK_MAX_HP, alive |-> TRUE,
     reloadRemain |-> 0, inputQueue |-> <<>>, lastInput |-> <<>>,
     turretYaw |-> "number", odometer |-> 0, lastProcessedSeq |-> "0",
     kills |-> 0, deaths |-> 0, hits |-> 0, shots |-> 0]

\* Variant of pushInput that makes room for the new command by dropping the
\* oldest one.
pushInput_Displace(p, cmd) ==
    IF Len(p.inputQueue) < INPUT_QUEUE_LIMIT
    THEN [p EXCEPT !.inputQueue = Append(@, cmd)]
    ELSE [p EXCEPT !.inputQueue = Append(Tail(@), cmd)]

pushInput(p, cmd) ==
    IF Len(p.inputQueue) < INPUT_QUEUE_LIMIT
    THEN [p EXCEPT !.inputQueue = Append(@, cmd)]
    ELSE p

\* Variant of popInput that replays the last command as it was.
popInput_KeepsFire(p) ==
    IF p.inputQueue # <<>>
    THEN [player |-> [p EXCEPT !.inputQueue = Tail(@), !.lastInput = <<Head(p.inputQueue)>>],
          cmd |-> <<Head(p.inputQueue)>>]
    ELSE [player |-> p, cmd |-> p.lastInput]

\* the player after popInput and the command returned (<<>> for null)
popInput(p) ==
    IF p.inputQueue # <<>>
    THEN [player |-> [p EXCEPT !.inputQueue = Tail(@), !.lastInput = <<Head(p.inputQueue)>>],
          cmd |-> <<Head(p.inputQueue)>>]
    ELSE IF p.lastInput # <<>>
         THEN [player |-> p, cmd |-> <<[p.lastInput[1] EXCEPT !.fire = FALSE]>>]
         ELSE [player |-> p, cmd |-> <<>>]

\* Variant of takeDamage that also damages a dead player.
takeDamage_HitsDead(p, amount) ==
    LET hp2 == Max(0, p.hp - amount)
    IN IF hp2 <= 0
       THEN [player |-> [p EXCEPT !.hp = hp2, !.alive = FALSE,
                                  !.inputQueue = <<>>, !.lastInput = <<>>],
             died |-> TRUE]
       ELSE [player |-> [p EXCEPT !.hp = hp2], died |-> FALSE]

\* the player after takeDamage and the value returned (died)
takeDamage(p, amount) ==
    IF ~p.alive THEN [player |-> p, died |-> FALSE]
    ELSE LET hp2 == Max(0, p.hp - amount)
         IN IF hp2 <= 0
            THEN [player |-> [p EXCEPT !.hp = hp2, !.alive = FALSE,
                                       !.inputQueue = <<>>, !.lastInput = <<>>],
                  died |-> TRUE]
            ELSE [player |-> [p EXCEPT !.hp = hp2], died |-> FALSE]

respawn(p) ==
    [p EXCEPT !.hp = TANK_MAX_HP, !.alive = TRUE, !.reloadRemain = 0,
              !.turretYaw = "number", !.odometer = 0]

\* Variant of tryFire that does not look at the reload timer.
tryFire_IgnoresReload(p) ==
    IF ~p.alive THEN [player |-> p, ok |-> FALSE]
    ELSE [player |-> [p EXCEPT !.reloadRemain = RELOAD_TIME, !.shots = @ + 1],
          ok |-> TRUE]

\* the player after tryFire and the value returned (ok)
tryFire(p) ==
    IF ~p.alive \/ p.reloadRemain > 0 THEN [player |-> p, ok |-> FALSE]
    ELSE [player |-> [p EXCEPT !.reloadRemain = RELOAD_TIME, !.shots = @ + 1],
          ok |-> TRUE]

updateReload(p, dtMs) ==
    IF p.reloadRemain > 0 THEN [p EXCEPT !.reloadRemain = Max(0, @ - dtMs)] ELSE p

resetStats(p) == [p EXCEPT !.kills = 0, !.deaths = 0, !.hits = 0, !.shots = 0]

\* ---------------------------------------------------------------- GameWorld
\* The operators below take and return the record of all fields (Cur below);
\* the world operators touch only the fields of GameWorld.

Event(type, a, b) == [eventType |-> type, a |-> a, b |-> b]

spawnProjectile(r, shooterId) ==
    [r EXCEPT
       !.projectiles = Append(@, [id |-> r.nextProjectileId, shooterId |-> shooterId,
                                  ttl |-> PROJECTILE_TTL, active |-> TRUE]),
       !.nextProjectileId = @ + 1,
       !.pendingEvents = Append(@, Event("fire", shooterId, r.nextProjectileId))]

\* updateTankPhysics, reduced to what it keeps of the command: the tank is
\* driven one step if a movement flag is set (odometer counts the steps since
\* the spawn), and the turret turns towards the clamped target (a NaN target
\* or a NaN turret angle gives NaN)
updateTankPhysics(p, input) ==
    [p EXCEPT !.odometer = IF input.forward THEN @ + 1 ELSE @,
              !.turretYaw = IF clamp(input.turretYaw) = "number" /\ @ = "number"
                            THEN "number" ELSE "NaN"]

\* Math.sign
sign(x) == IF x > 0 THEN 1 ELSE IF x < 0 THEN -1 ELSE 0

\* Math.abs
abs(x) == IF x < 0 THEN -x ELSE x

RECURSIVE normalizeAngle(_)
normalizeAngle(angle) ==
    IF angle > PI THEN normalizeAngle(angle - 2 * PI)
    ELSE IF angle < -PI THEN normalizeAngle(angle + 2 * PI)
    ELSE angle

\* clamp on numbers
clampNumber(value, min, max) == Max(min, Min(max, value))

\* the turret and the gun of a new Player and after respawn
NewTank == [turretYaw |-> 0, gunPitch |-> 0, lastInput |-> <<>>]

\* Variant of updateTurret without the clamp that follows the step.
updateTurret_NoClamp(t, input) ==
    LET targetTurretYaw == clampNumber(input.turretYaw, -TURRET_YAW_MAX, TURRET_YAW_MAX)
        diff == normalizeAngle(targetTurretYaw - t.turretYaw)
        maxStep == TURRET_TURN_RATE
    IN [t EXCEPT !.turretYaw = IF abs(diff) <= maxStep THEN targetTurretYaw
                                ELSE @ + sign(diff) * maxStep,
                 !.gunPitch = clampNumber(input.gunPitch, GUN_PITCH_MIN, GUN_PITCH_MAX),
                 !.lastInput = <<input>>]

\* updateTankPhysics, steps 2 and 3, on numbers: the turret turns towards the
\* clamped target by at most maxStep and is clamped, the gun takes the clamped
\* pitch
updateTurret(t, input) ==
    LET targetTurretYaw == clampNumber(input.turretYaw, -TURRET_YAW_MAX, TURRET_YAW_MAX)
        diff == normalizeAngle(targetTurretYaw - t.turretYaw)
        maxStep == TURRET_TURN_RATE
        stepped == IF abs(diff) <= maxStep THEN targetTurretYaw
                   ELSE t.turretYaw + sign(diff) * maxStep
    IN [t EXCEPT !.turretYaw = clampNumber(stepped, -TURRET_YAW_MAX, TURRET_YAW_MAX),
                 !.gunPitch = clampNumber(input.gunPitch, GUN_PITCH_MIN, GUN_PITCH_MAX),
                 !.lastInput = <<input>>]

\* applyInput: the physics step, then the fire request at its end
applyInput(r, id, cmd) ==
    LET r1 == [r EXCEPT !.players = Put(@, [updateTankPhysics(Get(@, id), cmd)
                                               EXCEPT !.lastProcessedSeq = cmd.seq])]
        f == tryFire(Get(r1.players, id))
    IN IF cmd.fire /\ f.ok
       THEN spawnProjectile([r1 EXCEPT !.players = Put(@, f.player)], id)
       ELSE r1

RECURSIVE InputStep(_, _)
\* update(), step 1, from the i-th player of the Map on
InputStep(r, i) ==
    IF i > Len(r.players) THEN r
    ELSE LET p == r.players[i]
         IN IF ~p.alive THEN InputStep(r, i + 1)
            ELSE LET po == popInput(p)
                     r1 == [r EXCEPT !.players = Put(@, po.player)]
                 IN IF po.cmd = <<>> THEN InputStep(r1, i + 1)
                    ELSE InputStep(applyInput(r1, p.id, po.cmd[1]), i + 1)

\* Variant of handleDeath that credits nobody with the kill.
handleDeath_NoKill(r, victimId, killerId) ==
    [r EXCEPT
       !.players = Put(@, [Get(@, victimId) EXCEPT !.deaths = @ + 1]),
       !.pendingEvents = Append(@, Event("death", victimId, killerId)),
       !.respawnQueue = Append(@, [id |-> victimId, timer |-> RESPAWN_DELAY])]

handleDeath(r, victimId, killerId) ==
    LET v == Get(r.players, victimId)
        ps1 == Put(r.players, [v EXCEPT !.deaths = @ + 1])
        ps2 == IF Has(ps1, killerId)
               THEN Put(ps1, [Get(ps1, killerId) EXCEPT !.kills = @ + 1])
               ELSE ps1
    IN [r EXCEPT
          !.players = ps2,
          !.pendingEvents = Append(@, Event("death", victimId, killerId)),
          !.respawnQueue = Append(@, [id |-> victimId, timer |-> RESPAWN_DELAY])]

RECURSIVE SplashStep_HitsTarget(_, _, _, _, _)
\* Variant of the splash loop that does not skip the player hit directly.
SplashStep_HitsTarget(r, i, proj, directHitTargetId, splash) ==
    IF i > Len(r.players) THEN r
    ELSE LET p == r.players[i]
         IN IF ~p.alive \/ p.id = proj.shooterId \/ p.id \notin splash
            THEN SplashStep_HitsTarget(r, i + 1, proj, directHitTargetId, splash)
            ELSE LET d == takeDamage(p, SPLASH_DAMAGE)
                     r1 == [r EXCEPT !.players = Put(@, d.player)]
                     r2 == IF d.died THEN handleDeath(r1, p.id, proj.shooterId) ELSE r1
                 IN SplashStep_HitsTarget(r2, i + 1, proj, directHitTargetId, splash)

RECURSIVE SplashStep(_, _, _, _, _)
\* the loop of handleProjectileExplode from the i-th player on; splash is the
\* set of players within SPLASH_RADIUS of the explosion
SplashStep(r, i, proj, directHitTargetId, splash) ==
    IF i > Len(r.players) THEN r
    ELSE LET p == r.players[i]
         IN IF ~p.alive \/ p.id = proj.shooterId \/ p.id = directHitTargetId
               \/ p.id \notin splash
            THEN SplashStep(r, i + 1, proj, directHitTargetId, splash)
            ELSE LET d == takeDamage(p, SPLASH_DAMAGE)
                     r1 == [r EXCEPT !.players = Put(@, d.player)]
                     r2 == IF d.died THEN handleDeath(r1, p.id, proj.shooterId) ELSE r1
                 IN SplashStep(r2, i + 1, proj, directHitTargetId, splash)

handleProjectileExplode(r, proj, directHitTargetId, splash) ==
    SplashStep([r EXCEPT !.pendingEvents = Append(@, Event("explode", proj.id, 0))],
               1, proj, directHitTargetId, splash)

Deactivate(r, j) == [r EXCEPT !.projectiles[j].active = FALSE]

\* Variant of handleDirectHit in which the projectile explodes before the
\* target takes the damage of the hit.
handleDirectHit_ExplodeFirst(r, j, targetId, splash) ==
    LET proj == r.projectiles[j]
        r1 == [Deactivate(r, j) EXCEPT
                 !.pendingEvents = Append(@, Event("hit", proj.id, targetId))]
        r2 == IF Has(r1.players, proj.shooterId)
              THEN [r1 EXCEPT !.players = Put(@, [Get(r1.players, proj.shooterId)
                                                   EXCEPT !.hits = @ + 1])]
              ELSE r1
        r3 == handleProjectileExplode(r2, proj, targetId, splash)
        d == takeDamage(Get(r3.players, targetId), DIRECT_HIT_DAMAGE)
        r4 == [r3 EXCEPT !.players = Put(@, d.player)]
    IN IF d.died THEN handleDeath(r4, targetId, proj.shooterId) ELSE r4

handleDirectHit(r, j, targetId, splash) ==
    LET proj == r.projectiles[j]
        r1 == [Deactivate(r, j) EXCEPT
                 !.pendingEvents = Append(@, Event("hit", proj.id, targetId))]
        r2 == IF Has(r1.players, proj.shooterId)
              THEN [r1 EXCEPT !.players = Put(@, [Get(r1.players, proj.shooterId)
                                                   EXCEPT !.hits = @ + 1])]
              ELSE r1
        d == takeDamage(Get(r2.players, targetId), DIRECT_HIT_DAMAGE)
        r3 == [r2 EXCEPT !.players = Put(@, d.player)]
        r4 == IF d.died THEN handleDeath(r3, targetId, proj.shooterId) ELSE r3
    IN handleProjectileExplode(r4, proj, targetId, splash)

RECURSIVE ProjectileStep(_, _, _)
\* update(), step 2, from the j-th projectile on. fate[id] is what the geometry
\* decides for projectile id in this tick: kind "fly", "ground", "cover" or "hit".
ProjectileStep(r, j, fate) ==
    IF j > Len(r.projectiles) THEN r
    ELSE LET proj == r.projectiles[j]
             f == fate[proj.id]
         IN IF ~proj.active THEN ProjectileStep(r, j + 1, fate)
            ELSE LET ttl2 == proj.ttl - TICK_INTERVAL
                     r1 == [r EXCEPT !.projectiles[j].ttl = ttl2,
                                     !.projectiles[j].active = (ttl2 > 0)]
                 IN IF r1.projectiles[j].active /\ f.kind = "ground"
                    THEN ProjectileStep(
                           handleProjectileExplode(Deactivate(r1, j), proj, 0, f.splash),
                           j + 1, fate)
                    ELSE IF f.kind = "cover"
                    THEN ProjectileStep(
                           handleProjectileExplode(Deactivate(r1, j), proj, 0, f.splash),
                           j + 1, fate)
                    ELSE ProjectileStep(r1, j + 1, fate)

RECURSIVE CollisionStep(_, _, _)
\* checkAllCollisions from the j-th projectile on
CollisionStep(r, j, fate) ==
    IF j > Len(r.projectiles) THEN r
    ELSE LET proj == r.projectiles[j]
             f == fate[proj.id]
         IN IF proj.active /\ f.kind = "hit" /\ Has(r.players, f.target)
               /\ f.target # proj.shooterId /\ Get(r.players, f.target).alive
            THEN CollisionStep(handleDirectHit(r, j, f.target, f.splash), j + 1, fate)
            ELSE CollisionStep(r, j + 1, fate)

\* Variant of step 4 of update() that purges nothing.
ActiveOnly_KeepsAll(projs) == projs

RECURSIVE ActiveOnly(_)
ActiveOnly(projs) ==
    IF projs = <<>> THEN <<>>
    ELSE IF Head(projs).active THEN <<Head(projs)>> \o ActiveOnly(Tail(projs))
         ELSE ActiveOnly(Tail(projs))

\* Variant of timerElapsed in exact arithmetic, where the countdown reaches 0.
timerElapsed_Exact(t) == t <= 0

\* entry.timer <= 0 in updateRespawnQueue.  The timer is a double counted down
\* from RESPAWN_DELAY (4000) by TICK_INTERVAL (1000 / 60, the double
\* 16.666666666666668): after RESPAWN_DELAY / TICK_INTERVAL = 240 subtractions
\* it is not 0 but the rounding residue 1.4e-11, and the test first succeeds
\* at the 241st.  A timer of the model is the exact multiple t of
\* TICK_INTERVAL, and the double it stands for lies above t by less than a
\* tick, so the double is at most 0 exactly when t is below 0.
timerElapsed(t) == t < 0

RECURSIVE RespawnStep(_, _, _)
\* updateRespawnQueue: the entries of queue counted down; kept collects the
\* entries that stay, the others respawn in queue order
RespawnStep(r, queue, kept) ==
    IF queue = <<>> THEN [r EXCEPT !.respawnQueue = kept]
    ELSE LET e == Head(queue)
             t == e.timer - TICK_INTERVAL
         IN IF timerElapsed(t)
            THEN LET r1 == IF Has(r.players, e.id)
                           THEN [r EXCEPT !.players = Put(@, respawn(Get(r.players, e.id)))]
                           ELSE r
                 IN RespawnStep([r1 EXCEPT !.pendingEvents =
                                               Append(@, Event("respawn", e.id, 0))],
                                Tail(queue), kept)
            ELSE RespawnStep(r, Tail(queue), Append(kept, [e EXCEPT !.timer = t]))

\* update() up to and including step 1
updateInputs(r) ==
    InputStep([r EXCEPT !.pendingEvents = <<>>, !.currentTick = @ + 1], 1)

updateRespawnQueue(r) == RespawnStep(r, r.respawnQueue, <<>>)

\* update(), steps 3 to 5: inactive projectiles purged, respawn queue, reload
updateEnd(r) ==
    [updateRespawnQueue([r EXCEPT !.projectiles = ActiveOnly(@)])
        EXCEPT !.players = [i \in 1..Len(@) |-> updateReload(@[i], TICK_INTERVAL)]]

\* update() from step 2 on
updateRest(r, fate) == updateEnd(CollisionStep(ProjectileStep(r, 1, fate), 1, fate))

worldAddPlayer(r, p) ==
    [r EXCEPT !.players = IF Has(@, p.id) THEN Put(@, respawn(p))
                          ELSE Append(@, respawn(p))]

\* a variant of worldRemovePlayer that leaves the respawn queue as it is
worldRemovePlayer_KeepsQueue(r, playerId) ==
    [r EXCEPT !.players = Delete(@, playerId)]

worldRemovePlayer(r, playerId) ==
    [r EXCEPT !.players = Delete(@, playerId),
              !.respawnQueue = Filter(@, Ids(@) \ {playerId})]

shouldSendSnapshot(r) == r.currentTick % SNAPSHOT_INTERVAL = 0

\* a variant of reset that keeps the respawn queue
reset_KeepsQueue(r) ==
    [r EXCEPT !.currentTick = 0,
              !.snapshotId = 0,
              !.projectiles = <<>>,
              !.players = [i \in 1..Len(r.players) |-> respawn(resetStats(r.players[i]))]]

reset(r) ==
    [r EXCEPT !.currentTick = 0,
              !.snapshotId = 0,
              !.projectiles = <<>>,
              !.respawnQueue = <<>>,
              !.players = [i \in 1..Len(r.players) |-> respawn(resetStats(r.players[i]))]]

\* ------------------------------------------------------------- SpawnManager
distanceTo(a, b) == abs(a - b)

\* scoreCandidate: candidate.base stands for the sum of the terms S_dist,
\* S_los, S_cover and S_flow, which the enemies and the map decide
scoreCandidate(candidate, recent) ==
    candidate.base
    - (IF \E k \in 1..Len(recent) :
             distanceTo(candidate.point, recent[k]) < SPAWN_COOLDOWN_RADIUS
       THEN SPAWN_WEIGHT_RECENT ELSE 0)

\* scored.sort((a, b) => b.score - a.score).slice(0, SPAWN_TOP_K): the
\* positions in candidates of the SPAWN_TOP_K best, ties in candidate order
topK(candidates, recent) ==
    LET score(i) == scoreCandidate(candidates[i], recent)
        before(i) == {j \in 1..Len(candidates) :
                         score(j) > score(i) \/ (score(j) = score(i) /\ j < i)}
    IN {i \in 1..Len(candidates) : Cardinality(before(i)) < SPAWN_TOP_K}

\* recentSpawns after selectSpawnPoint recorded the point it selected
recordSpawn(recent, point) ==
    LET pushed == Append(recent, point)
    IN IF Len(pushed) > maxRecentSpawns THEN Tail(pushed) ELSE pushed

\* ----------------------------------------------------------------- AIPlayer
\* enum AIState
Patrol == "Patrol"
Chase == "Chase"
Engage == "Engage"
Retreat == "Retreat"

\* targetPlayerId = null
NoTarget == 0

\* new AIPlayer(player, difficulty)
NewAI ==
    [state |-> Patrol, seq |-> 0, targetPlayerId |-> NoTarget,
     reactionTimer |-> 0, fireDelayTimer |-> 0, aimReady |-> FALSE]

\* the Player of the controller, in world.players between two humans
SelfId == FIRST_AI_ID

\* allPlayers as update sees it, in Map order; dist is the horizontal distance
\* from the controller's tank
allPlayersOf(sc) ==
    << [id |-> FIRST_PLAYER_ID, alive |-> sc.others[1].alive, dist |-> sc.others[1].dist],
       [id |-> SelfId, alive |-> sc.alive, dist |-> 0],
       [id |-> FIRST_PLAYER_ID + 1, alive |-> sc.others[2].alive, dist |-> sc.others[2].dist] >>

\* the loop of findNearestEnemy from the i-th entry on; nearest is <<>> (null,
\* minDist = Infinity) or <<p>>
RECURSIVE findNearestFrom(_, _, _, _)
findNearestFrom(allPlayers, selfId, i, nearest) ==
    IF i > Len(allPlayers) THEN nearest
    ELSE LET p == allPlayers[i]
         IN IF p.id # selfId /\ p.alive
               /\ (nearest = <<>> \/ p.dist < nearest[1].dist)
            THEN findNearestFrom(allPlayers, selfId, i + 1, <<p>>)
            ELSE findNearestFrom(allPlayers, selfId, i + 1, nearest)

\* variant: the dead are candidates too
RECURSIVE findNearestFrom_AlsoDead(_, _, _, _)
findNearestFrom_AlsoDead(allPlayers, selfId, i, nearest) ==
    IF i > Len(allPlayers) THEN nearest
    ELSE LET p == allPlayers[i]
         IN IF p.id # selfId
               /\ (nearest = <<>> \/ p.dist < nearest[1].dist)
            THEN findNearestFrom_AlsoDead(allPlayers, selfId, i + 1, <<p>>)
            ELSE findNearestFrom_AlsoDead(allPlayers, selfId, i + 1, nearest)

\* variant: the nearest of the others, dead or alive
findNearestEnemy_AlsoDead(allPlayers, selfId) ==
    findNearestFrom_AlsoDead(allPlayers, selfId, 1, <<>>)

\* AIPlayer.findNearestEnemy
findNearestEnemy(allPlayers, selfId) ==
    findNearestFrom(allPlayers, selfId, 1, <<>>)

\* variant: the reaction timer is not consulted
updateState_NoHold(a, target, dist, hp) ==
    IF target = <<>>
    THEN [a EXCEPT !.state = Patrol, !.targetPlayerId = NoTarget]
    ELSE IF hp < retreatHp /\ dist < retreatDist
    THEN [a EXCEPT !.state = Retreat]
    ELSE LET b == IF a.targetPlayerId # target[1].id
                  THEN [a EXCEPT !.targetPlayerId = target[1].id,
                                 !.reactionTimer = reactionTime,
                                 !.aimReady = FALSE,
                                 !.fireDelayTimer = 0]
                  ELSE a
         IN [b EXCEPT !.state = IF dist > engageRange THEN Chase ELSE Engage]

\* AIPlayer.updateState
updateState(a, target, dist, hp) ==
    IF target = <<>>
    THEN [a EXCEPT !.state = Patrol, !.targetPlayerId = NoTarget]
    ELSE IF hp < retreatHp /\ dist < retreatDist
    THEN [a EXCEPT !.state = Retreat]
    ELSE LET b == IF a.targetPlayerId # target[1].id
                  THEN [a EXCEPT !.targetPlayerId = target[1].id,
                                 !.reactionTimer = reactionTime,
                                 !.aimReady = FALSE,
                                 !.fireDelayTimer = 0]
                  ELSE a
         IN IF b.reactionTimer > 0
            THEN [b EXCEPT !.state = IF dist > engageRange THEN Patrol ELSE Chase]
            ELSE [b EXCEPT !.state = IF dist > engageRange THEN Chase ELSE Engage]

\* fireDelayTimer -= dt. The code lets the timer fall without end while the aim
\* holds; every value at or below zero passes the same test, so one is kept.
countDown(t) == Max(t - TICK_INTERVAL, 0)

\* AIPlayer.doEngage: the aim flag, the fire delay and the fire decision
doEngage(a, aimError, reloadRemain) ==
    LET b == IF aimError < aimThreshold
             THEN IF ~a.aimReady
                  THEN [a EXCEPT !.aimReady = TRUE, !.fireDelayTimer = fireDelay]
                  ELSE a
             ELSE [a EXCEPT !.aimReady = FALSE, !.fireDelayTimer = 0]
    IN IF b.aimReady
       THEN LET c == [b EXCEPT !.fireDelayTimer = countDown(b.fireDelayTimer)]
            IN [ai |-> c, fire |-> c.fireDelayTimer <= 0 /\ reloadRemain <= 0]
       ELSE [ai |-> b, fire |-> FALSE]

\* AIPlayer.update: the controller after the update and the commands that it
\* pushed
update(a, sc) ==
    IF ~sc.alive THEN [ai |-> a, cmds |-> <<>>]
    ELSE LET target == findNearestEnemy(allPlayersOf(sc), SelfId)
             targetDist == IF target = <<>> THEN 0 ELSE target[1].dist
             a1 == updateState(a, target, targetDist, sc.hp)
             a2 == IF a1.reactionTimer > 0
                   THEN [a1 EXCEPT !.reactionTimer = @ - TICK_INTERVAL]
                   ELSE a1
             e == IF a2.state = Engage /\ target # <<>>
                  THEN doEngage(a2, sc.aimError, sc.reloadRemain)
                  ELSE [ai |-> a2, fire |-> FALSE]
             a3 == IF a2.state = Retreat /\ sc.hp > recoverHp
                   THEN [e.ai EXCEPT !.state = Patrol]
                   ELSE e.ai
             a4 == [a3 EXCEPT !.seq = @ + 1]
         IN [ai |-> a4, cmds |-> <<[seq |-> a4.seq, fire |-> e.fire]>>]

\* what the world can show to the controller: its own tank, the two humans
\* and the error of its aim at the nearest of them
Others == [alive : BOOLEAN, dist : 1..MaxDist]

NewScene ==
    [alive |-> TRUE, hp |-> TANK_MAX_HP, reloadRemain |-> 0, aimError |-> aimThreshold,
     others |-> <<[alive |-> FALSE, dist |-> MaxDist], [alive |-> FALSE, dist |-> MaxDist]>>]

\* ------------------------------------------------------- positions on a line
RECURSIVE Pow2(_)
Pow2(n) == IF n = 0 THEN 1 ELSE 2 * Pow2(n - 1)

\* The coordinates are whole numbers of parts of a step, so fine that every
\* half of an overlap that MaxMoves ticks can produce is a whole number of
\* parts.
Parts == Pow2(MaxMoves)

halfW == HALF_WIDTH * Parts

\* where the two tanks spawn
SpawnPositions == <<0, 2 * TANK_COLLISION_RADIUS * Parts>>

\* applyInput, the cover loop: a tank nearer to the cover than both radii is
\* put on the circle around it, on its own side
pushOutOfCover(x) ==
    LET dx == x - COVER_X * Parts
        dist == abs(dx)
        minDist == (TANK_COLLISION_RADIUS + COVER_RADIUS) * Parts
    IN IF dist < minDist /\ dist > 0 THEN x + sign(dx) * (minDist - dist) ELSE x

\* applyInput, the map boundary
clampToMap(x) == IF x < -halfW THEN -halfW ELSE IF x > halfW THEN halfW ELSE x

\* applyInput of a tank at x that the physics moves by d: the cover, then
\* the boundary
applyInputAt(x, d) == clampToMap(pushOutOfCover(x + d))

\* update(), step 1, for two live tanks; input[i] is <<>> for a tank that has
\* never sent a command (popInput returns null) and <<d>> for one that the
\* physics moves by d
movedByInput(xs, input) ==
    [i \in 1..2 |-> IF input[i] = <<>> THEN xs[i] ELSE applyInputAt(xs[i], input[i][1])]

\* resolveTankTankCollisions for two live tanks: either takes half of the
\* overlap
resolveTankTankCollisions(xs) ==
    LET dx == xs[2] - xs[1]
        dist == abs(dx)
        minDist == TANK_COLLISION_RADIUS * 2 * Parts
        nx == sign(dx)
        overlap == (minDist - dist) \div 2
    IN IF dist < minDist /\ dist > 0
       THEN <<xs[1] - nx * overlap, xs[2] + nx * overlap>>
       ELSE xs

\* ----------------------------------------------------------------- GameRoom
Msg(to, type, a) == [to |-> to, type |-> type, a |-> a]

RECURSIVE SendAll(_, _, _)
SendAll(recipients, type, a) ==
    IF recipients = <<>> THEN <<>>
    ELSE <<Msg(Head(recipients), type, a)>> \o SendAll(Tail(recipients), type, a)

\* clients is a Map filled in join order, which is the order of the ids
broadcastJSON(r, type, a) ==
    [r EXCEPT !.out = @ \o SendAll(Ascending(r.clients), type, a)]

RECURSIVE addAIBots(_, _)
addAIBots(r, count) ==
    IF count <= 0 \/ Len(r.players) >= MAX_PLAYERS THEN r
    ELSE LET id == r.aiIdCounter
             r1 == worldAddPlayer([r EXCEPT !.aiIdCounter = @ + 1], NewPlayer(id, TRUE))
         IN addAIBots([r1 EXCEPT !.aiBots = Append(@, id)], count - 1)

\* a variant of fillWithAIBots that stops one AI short
fillWithAIBots_Short(r) ==
    LET totalPlayers == Len(r.players)
    IN IF totalPlayers < MAX_PLAYERS THEN addAIBots(r, MAX_PLAYERS - totalPlayers - 1) ELSE r

fillWithAIBots(r) ==
    LET totalPlayers == Len(r.players)
    IN IF totalPlayers < MAX_PLAYERS THEN addAIBots(r, MAX_PLAYERS - totalPlayers) ELSE r

\* Variant of removeAIBot that leaves the controller's tank in the world.
removeAIBot_KeepsTank(r, botId) == [r EXCEPT !.aiBots = Without(@, botId)]

removeAIBot(r, botId) ==
    worldRemovePlayer([r EXCEPT !.aiBots = Without(@, botId)], botId)

RECURSIVE RemoveEach(_, _)
RemoveEach(r, ids) ==
    IF ids = <<>> THEN r ELSE RemoveEach(worldRemovePlayer(r, Head(ids)), Tail(ids))

removeAllAIBots(r) == [RemoveEach(r, r.aiBots) EXCEPT !.aiBots = <<>>]

startTickLoop(r) == IF r.tickTimer THEN r ELSE [r EXCEPT !.tickTimer = TRUE]

stopTickLoop(r) == IF r.tickTimer THEN [r EXCEPT !.tickTimer = FALSE] ELSE r

startRound(r) ==
    startTickLoop([r EXCEPT
        !.state = InRound,
        !.roundTimer = 0,
        !.players = [i \in 1..Len(r.players) |-> resetStats(r.players[i])]])

\* a variant of EnoughToStart that does not count the AIs
EnoughToStart_HumansOnly(r) == Cardinality(r.clients) >= MIN_PLAYERS

\* rule of addPlayer for leaving Warmup
EnoughToStart(r) == Cardinality(r.clients) + Len(r.aiBots) >= MIN_PLAYERS

\* Variant of admit that does not advance nextPlayerId.
admit_ReusesId(r) ==
    LET id == r.nextPlayerId
        r1 == worldAddPlayer(r, NewPlayer(id, FALSE))
        r2 == [r1 EXCEPT !.clients = @ \cup {id},
                         !.idleTime = [c \in DOMAIN @ \cup {id} |->
                                          IF c = id THEN 0 ELSE @[c]]]
        r3 == startTickLoop(broadcastJSON(r2, "PlayerJoined", id))
        r4 == IF r3.state = Warmup /\ EnoughToStart(r3) THEN startRound(r3) ELSE r3
    IN [r4 EXCEPT !.joinResult = <<id>>]

\* addPlayer after the capacity check
admit(r) ==
    LET id == r.nextPlayerId
        r1 == worldAddPlayer([r EXCEPT !.nextPlayerId = @ + 1], NewPlayer(id, FALSE))
        r2 == [r1 EXCEPT !.clients = @ \cup {id},
                         !.idleTime = [c \in DOMAIN @ \cup {id} |->
                                          IF c = id THEN 0 ELSE @[c]]]
        r3 == startTickLoop(broadcastJSON(r2, "PlayerJoined", id))
        r4 == IF r3.state = Warmup /\ EnoughToStart(r3) THEN startRound(r3) ELSE r3
    IN [r4 EXCEPT !.joinResult = <<id>>]

\* addPlayer: the world is full
Full(r) == Len(r.players) >= MAX_PLAYERS

\* a variant of firstBotId that picks the newest AI
firstBotId_Newest(r) == r.aiBots[Len(r.aiBots)]

\* addPlayer: this.aiBots.keys().next().value
firstBotId(r) == Head(r.aiBots)

\* a variant of addPlayer that never evicts an AI
addPlayer_NoEviction(r) ==
    IF Full(r) THEN [r EXCEPT !.joinResult = <<0>>] ELSE admit(r)

addPlayer(r) ==
    IF Full(r)
    THEN IF Len(r.aiBots) > 0
         THEN admit(removeAIBot(r, firstBotId(r)))
         ELSE [r EXCEPT !.joinResult = <<0>>]
    ELSE admit(r)

\* a variant of TooFewHumans that is off by one
TooFewHumans_Inclusive(r) == r.state = InRound /\ Cardinality(r.clients) <= MIN_PLAYERS

\* rule of removePlayer for going back to Warmup
TooFewHumans(r) == r.state = InRound /\ Cardinality(r.clients) < MIN_PLAYERS

\* kills, deaths, shots and hits of the combatant playerId in the world; the
\* zeros of `player?.kills ?? 0` if it is not there
statsOf(r, playerId) ==
    IF Has(r.players, playerId)
    THEN LET p == Get(r.players, playerId)
         IN [kills |-> p.kills, deaths |-> p.deaths, shots |-> p.shots, hits |-> p.hits]
    ELSE [kills |-> 0, deaths |-> 0, shots |-> 0, hits |-> 0]

\* GameServer.endPlayerSession: the stats of the combatant, as the world has
\* them at the call, go to Database.onPlayerLogout.  playerSessions holds the
\* session that handleJoinRoom opened for the human at its join.
endPlayerSession(r, playerId) ==
    [r EXCEPT !.logouts = Append(@, [id |-> playerId, stats |-> statsOf(r, playerId)])]

\* removePlayer; kick tells the log of the calls whether kickPlayer made it,
\* and stats is what the combatant had when the call took it out
removePlayer(r, playerId, kick) ==
    LET r1 == worldRemovePlayer(r, playerId)
        r2 == [r1 EXCEPT !.clients = @ \ {playerId},
                         !.idleTime = [c \in DOMAIN @ \ {playerId} |-> @[c]]]
        r3 == broadcastJSON(r2, "PlayerLeft", playerId)
        r4 == IF TooFewHumans(r3)
              THEN [r3 EXCEPT !.state = Warmup] ELSE r3
        r5 == IF Cardinality(r4.clients) = 0 THEN stopTickLoop(r4) ELSE r4
        r6 == fillWithAIBots(r5)
    IN [r6 EXCEPT !.removals = Append(@,
           [id |-> playerId, kick |-> kick, stats |-> statsOf(r, playerId),
            stateBefore |-> r.state,
            stateAfter |-> r6.state, humans |-> Cardinality(r6.clients),
            total |-> Cardinality(r6.clients) + Len(r6.aiBots)])]

\* room.onPlayerKicked, the callback that handleJoinRoom sets: it ends the
\* session of the kicked player
onPlayerKicked(r, kickedId) == endPlayerSession(r, kickedId)

\* Variant of kickPlayer that removes the player before it looks up the client
\* to notify.
kickPlayer_RemoveFirst(r, playerId) ==
    LET r1 == removePlayer(r, playerId, TRUE)
        r2 == IF playerId \in r1.clients
              THEN [r1 EXCEPT !.out = Append(@, Msg(playerId, "AFKKick", 0))]
              ELSE r1
    IN onPlayerKicked(r2, playerId)

kickPlayer(r, playerId) ==
    LET r1 == IF playerId \in r.clients
              THEN [r EXCEPT !.out = Append(@, Msg(playerId, "AFKKick", 0))]
              ELSE r
    IN onPlayerKicked(removePlayer(r1, playerId, TRUE), playerId)

\* GameServer.handleDisconnect: the session is ended, then the room removes
\* the player
handleDisconnect(r, playerId) ==
    removePlayer(endPlayerSession(r, playerId), playerId, FALSE)

RECURSIVE KickEach(_, _)
KickEach(r, toKick) ==
    IF toKick = <<>> THEN r ELSE KickEach(kickPlayer(r, Head(toKick)), Tail(toKick))

\* Variant of checkAFK whose threshold is one tick short of AFK_TIMEOUT.
checkAFK_Early(r) ==
    KickEach(r, Ascending({c \in DOMAIN r.idleTime :
                              c \in r.clients /\ r.idleTime[c] >= AFK_TIMEOUT - TICK_INTERVAL}))

\* lastInputTime is a Map filled in join order, which is the order of the ids
checkAFK(r) ==
    KickEach(r, Ascending({c \in DOMAIN r.idleTime :
                              c \in r.clients /\ r.idleTime[c] >= AFK_TIMEOUT}))

\* Variant of handleInput that queues the command of a dead player too.
handleInput_AlsoDead(r, playerId, cmd) ==
    LET r1 == IF Has(r.players, playerId)
              THEN [r EXCEPT !.players = Put(@, pushInput(Get(r.players, playerId), cmd))]
              ELSE r
    IN [r1 EXCEPT !.idleTime = [c \in DOMAIN @ \cup {playerId} |->
                                   IF c = playerId THEN 0 ELSE @[c]]]

\* Variant of handleInput that refreshes the last-input time only when the
\* command is handed to the player.
handleInput_RefreshWhenQueued(r, playerId, cmd) ==
    IF Has(r.players, playerId) /\ Get(r.players, playerId).alive
    THEN [r EXCEPT !.players = Put(@, pushInput(Get(r.players, playerId), cmd)),
                   !.idleTime = [c \in DOMAIN @ \cup {playerId} |->
                                    IF c = playerId THEN 0 ELSE @[c]]]
    ELSE r

\* GameRoom.handleInput
handleInput(r, playerId, cmd) ==
    LET r1 == IF Has(r.players, playerId) /\ Get(r.players, playerId).alive
              THEN [r EXCEPT !.players = Put(@, pushInput(Get(r.players, playerId), cmd))]
              ELSE r
    IN [r1 EXCEPT !.idleTime = [c \in DOMAIN @ \cup {playerId} |->
                                   IF c = playerId THEN 0 ELSE @[c]]]

endRound(r) ==
    LET r1 == stopTickLoop([r EXCEPT !.state = RoundEnd])
        r2 == broadcastJSON(r1, "RoundEnd", 0)
    IN [r2 EXCEPT !.restartTimers = @ + 1]

RECURSIVE ReAdd(_, _)
\* the loop of restartRound over aiBots; the Player of a controller that is no
\* longer in the world is the object the controller kept (detached)
ReAdd(r, bots) ==
    IF bots = <<>> THEN r
    ELSE IF Has(r.players, Head(bots)) THEN ReAdd(r, Tail(bots))
         ELSE ReAdd(worldAddPlayer(r, Get(r.detached, Head(bots))), Tail(bots))

\* a variant of EnoughToRestart that does not count the AIs
EnoughToRestart_HumansOnly(r) == Cardinality(r.clients) >= MIN_PLAYERS

\* rule of restartRound for starting the next round
EnoughToRestart(r) == Cardinality(r.clients) >= MIN_PLAYERS \/ Len(r.aiBots) > 0

restartRound(r) ==
    LET r1 == ReAdd(reset(r), r.aiBots)
        r2 == [r1 EXCEPT !.detached = Filter(@, Ids(@) \ Ids(r1.players))]
    IN IF EnoughToRestart(r2)
       THEN startRound(r2)
       ELSE [r2 EXCEPT !.state = Warmup]

RECURSIVE RelayEvents(_, _)
RelayEvents(r, events) ==
    IF events = <<>> THEN r
    ELSE RelayEvents(broadcastJSON(r, "GameEvent", Head(events)), Tail(events))

RECURSIVE AIUpdate(_, _, _)
\* the loop of tick over aiBots: a live AI pushes the command it synthesized;
\* aiFire is the set of the AIs whose command asks to fire (the AIs of the
\* model aim and fire but do not drive)
AIUpdate(r, bots, aiFire) ==
    IF bots = <<>> THEN r
    ELSE LET id == Head(bots)
         IN IF Has(r.players, id) /\ Get(r.players, id).alive
            THEN AIUpdate([r EXCEPT !.players =
                              Put(@, pushInput(Get(r.players, id), Cmd(FALSE, id \in aiFire)))],
                          Tail(bots), aiFire)
            ELSE AIUpdate(r, Tail(bots), aiFire)

\* tick up to and including step 1 of world.update
tickInputs(r, aiFire) == updateInputs(AIUpdate(r, r.aiBots, aiFire))

\* a variant of RoundOver that ends the round one tick late
RoundOver_Late(r) == r.roundTimer > ROUND_DURATION

\* rule of tick for ending the round
RoundOver(r) == r.roundTimer >= ROUND_DURATION

\* Variant of tickAFK that lets one more tick pass between two AFK checks.
tickAFK_Late(r) ==
    IF r.lastAFKCheck + TICK_INTERVAL > AFK_CHECK_INTERVAL
    THEN checkAFK([r EXCEPT !.lastAFKCheck = 0])
    ELSE [r EXCEPT !.lastAFKCheck = @ + TICK_INTERVAL]

\* tick: the AFK check
tickAFK(r) ==
    IF r.lastAFKCheck + TICK_INTERVAL >= AFK_CHECK_INTERVAL
    THEN checkAFK([r EXCEPT !.lastAFKCheck = 0])
    ELSE [r EXCEPT !.lastAFKCheck = @ + TICK_INTERVAL]

\* tick: the events of the world's tick are relayed
tickEvents(r) == RelayEvents(r, r.pendingEvents)

\* what getSnapshot(forPlayerId) returns, of which the model keeps the
\* snapshotId and player?.lastProcessedSeq ?? 0
getSnapshot(r, forPlayerId) ==
    [snapshotId |-> r.snapshotId,
     lastProcessedSeq |->
         IF Has(r.players, forPlayerId)
            /\ Get(r.players, forPlayerId).lastProcessedSeq # "undefined"
         THEN Get(r.players, forPlayerId).lastProcessedSeq
         ELSE "0"]

RECURSIVE SendSnapshots(_, _)
SendSnapshots(r, recipients) ==
    IF recipients = <<>> THEN <<>>
    ELSE <<Msg(Head(recipients), "Snapshot", getSnapshot(r, Head(recipients)))>>
         \o SendSnapshots(r, Tail(recipients))

broadcastSnapshots(r) == [r EXCEPT !.out = @ \o SendSnapshots(r, Ascending(r.clients))]

\* Variant of tickSnapshot that sends a snapshot in every tick.
tickSnapshot_EveryTick(r) == broadcastSnapshots([r EXCEPT !.snapshotId = @ + 1])

\* tick: the snapshot
tickSnapshot(r) ==
    IF shouldSendSnapshot(r)
    THEN broadcastSnapshots([r EXCEPT !.snapshotId = @ + 1])
    ELSE r

\* tick: the round timer
tickRoundTimer(r) ==
    IF r.state = InRound
    THEN IF RoundOver([r EXCEPT !.roundTimer = @ + TICK_INTERVAL])
         THEN endRound([r EXCEPT !.roundTimer = @ + TICK_INTERVAL])
         ELSE [r EXCEPT !.roundTimer = @ + TICK_INTERVAL]
    ELSE r

\* tick from step 2 of world.update on
tickRest(r, fate) ==
    tickRoundTimer(tickSnapshot(tickEvents(tickAFK(updateRest(r, fate)))))

\* the Player objects of the AI controllers outlive players.clear()
destroy(r) ==
    LET r1 == stopTickLoop(r)
    IN [r1 EXCEPT !.clients = {},
                  !.detached = Filter(r.players, SeqSet(r.aiBots)),
                  !.players = <<>>,
                  !.projectiles = <<>>]

\* ------------------------------------------------------------ state machine
\* the fields before an operation; what the last operation sent and returned
\* is forgotten
Cur ==
    [state |-> state, clients |-> clients, aiBots |-> aiBots, roundTimer |-> roundTimer,
     tickTimer |-> tickTimer, nextPlayerId |-> nextPlayerId, aiIdCounter |-> aiIdCounter,
     idleTime |-> idleTime, lastAFKCheck |-> lastAFKCheck, restartTimers |-> restartTimers,
     registered |-> registered, players |-> players, projectiles |-> projectiles,
     respawnQueue |-> respawnQueue, currentTick |-> currentTick, snapshotId |-> snapshotId,
     nextProjectileId |-> nextProjectileId, detached |-> detached,
     pendingEvents |-> <<>>, out |-> <<>>, joinResult |-> <<>>, removals |-> <<>>,
     logouts |-> <<>>, lastOp |-> ""]

WithinBounds(r) ==
    /\ r.nextPlayerId <= FIRST_PLAYER_ID + MaxHumanIds
    /\ r.aiIdCounter <= FIRST_AI_ID + MaxAIIds
    /\ r.currentTick <= MaxTick
    /\ r.nextProjectileId <= 1 + MaxProjectiles

RECURSIVE Received(_, _, _)
\* the snapshotId of the last snapshot that human c was sent, after the
\* messages msgs; before is the one it had been sent earlier
Received(msgs, c, before) ==
    IF msgs = <<>> THEN before
    ELSE LET m == msgs[Len(msgs)]
         IN IF m.to = c /\ m.type = "Snapshot" THEN m.a.snapshotId
            ELSE Received(SubSeq(msgs, 1, Len(msgs) - 1), c, before)

\* the fields after an operation that ends with the record q
Becomes(q) ==
    \E r \in {q} :
        /\ WithinBounds(r)
        /\ state' = r.state
        /\ clients' = r.clients
        /\ aiBots' = r.aiBots
        /\ roundTimer' = r.roundTimer
        /\ tickTimer' = r.tickTimer
        /\ nextPlayerId' = r.nextPlayerId
        /\ aiIdCounter' = r.aiIdCounter
        /\ idleTime' = r.idleTime
        /\ lastAFKCheck' = r.lastAFKCheck
        /\ restartTimers' = r.restartTimers
        /\ registered' = r.registered
        /\ players' = r.players
        /\ projectiles' = r.projectiles
        /\ respawnQueue' = r.respawnQueue
        /\ currentTick' = r.currentTick
        /\ snapshotId' = r.snapshotId
        /\ nextProjectileId' = r.nextProjectileId
        /\ detached' = r.detached
        /\ out' = r.out
        /\ joinResult' = r.joinResult
        /\ removals' = r.removals
        /\ logouts' = r.logouts
        /\ lastOp' = r.lastOp
        /\ UNCHANGED partVars
        /\ returned' = r.pendingEvents
        /\ lastSnapshot' = IF FIRST_PLAYER_ID \in r.clients
                           THEN Received(r.out, FIRST_PLAYER_ID, lastSnapshot)
                           ELSE 0

\* new GameRoom(id, seed)
Constructed ==
    fillWithAIBots(
      [state |-> Warmup, clients |-> {}, aiBots |-> <<>>, roundTimer |-> 0,
       tickTimer |-> FALSE, nextPlayerId |-> FIRST_PLAYER_ID,
       aiIdCounter |-> FIRST_AI_ID, idleTime |-> <<>>, lastAFKCheck |-> 0,
       restartTimers |-> 0, registered |-> TRUE, players |-> <<>>,
       projectiles |-> <<>>, respawnQueue |-> <<>>, currentTick |-> 0,
       snapshotId |-> 0, nextProjectileId |-> 1, detached |-> <<>>,
       pendingEvents |-> <<>>, out |-> <<>>, joinResult |-> <<>>, removals |-> <<>>,
       logouts |-> <<>>, lastOp |-> "new"])

Init ==
    LET r == Constructed
    IN /\ state = r.state /\ clients = r.clients /\ aiBots = r.aiBots
       /\ roundTimer = r.roundTimer /\ tickTimer = r.tickTimer
       /\ nextPlayerId = r.nextPlayerId /\ aiIdCounter = r.aiIdCounter
       /\ idleTime = r.idleTime /\ lastAFKCheck = r.lastAFKCheck
       /\ restartTimers = r.restartTimers /\ registered = r.registered
       /\ players = r.players /\ projectiles = r.projectiles
       /\ respawnQueue = r.respawnQueue /\ currentTick = r.currentTick
       /\ snapshotId = r.snapshotId /\ nextProjectileId = r.nextProjectileId
       /\ detached = r.detached /\ out = r.out /\ joinResult = r.joinResult
       /\ removals = r.removals /\ logouts = r.logouts /\ lastOp = r.lastOp
       /\ tank = NewTank /\ sameTicks = 0
       /\ recentSpawns = <<>>
       /\ selected = <<>>
       /\ position = SpawnPositions /\ fieldTicks = 0
       /\ ai = NewAI /\ scene = NewScene /\ issued = <<>> /\ aimedTicks = 0 /\ heldTicks = 0
       /\ aiOp = "new"
       /\ returned = r.pendingEvents
       /\ lastSnapshot = 0

\* GameServer.handleJoinRoom -> room.addPlayer
AddPlayer ==
    /\ registered
    /\ Becomes([addPlayer(Cur) EXCEPT !.lastOp = "addPlayer"])

\* GameServer.handleDisconnect -> room.removePlayer
RemovePlayer ==
    /\ registered
    /\ \E id \in clients :
          Becomes([handleDisconnect(Cur, id) EXCEPT !.lastOp = "removePlayer"])

\* the players with a queued command that asks to fire
QueuedFires ==
    Cardinality({i \in 1..Len(players) :
                    \E k \in 1..Len(players[i].inputQueue) : players[i].inputQueue[k].fire})

\* GameServer.handleInputCmd -> room.handleInput
\* cmds: the commands the clients send; maxQueued: a client sends while fewer
\* than maxQueued of its commands wait in the queue
HandleInput(cmds, maxQueued) ==
    /\ registered
    /\ \E id \in clients, cmd \in cmds :
          /\ Has(players, id) => Len(Get(players, id).inputQueue) < maxQueued
          /\ cmd.fire /\ Has(players, id) /\ Get(players, id).alive =>
                nextProjectileId + QueuedFires <= MaxProjectiles
          /\ Becomes([handleInput(Cur, id, cmd) EXCEPT !.lastOp = "handleInput"])

\* what the geometry can decide for one projectile in a tick
\* victims: the players that may be in the way or within the splash radius
Fates(r, victims) ==
    LET ids == Ids(r.players) \cap victims
        splashes == {S \in SUBSET ids : Cardinality(S) <= 1}
    IN {[kind |-> "fly", target |-> 0, splash |-> {}]}
       \cup {[kind |-> k, target |-> 0, splash |-> S] :
                k \in {"ground", "cover"}, S \in splashes}
       \cup {[kind |-> "hit", target |-> t, splash |-> S] : t \in ids, S \in splashes}

\* the setInterval callback of startTickLoop
\* shooters: the AIs that may ask to fire in this tick
Tick(shooters, victims) ==
    /\ tickTimer
    /\ currentTick < MaxTick
    /\ \E aiFire \in SUBSET (IF nextProjectileId <= MaxProjectiles THEN shooters ELSE {}) :
          \E r1 \in {tickInputs(Cur, aiFire)} :
             \E fate \in [Ids(r1.projectiles) -> Fates(r1, victims)] :
                Becomes([tickRest(r1, fate) EXCEPT !.lastOp = "tick"])

\* the setTimeout callback of endRound
RestartTimeout ==
    /\ restartTimers > 0
    /\ Becomes([restartRound([Cur EXCEPT !.restartTimers = @ - 1])
                   EXCEPT !.lastOp = "restartRound"])

\* GameServer.cleanupRooms: an empty room is destroyed and deregistered
CleanupRooms ==
    /\ registered
    /\ clients = {}
    /\ Becomes([destroy(Cur) EXCEPT !.registered = FALSE, !.lastOp = "destroy"])

\* GameServer.shutdown: every room is destroyed and deregistered
Shutdown ==
    /\ registered
    /\ Becomes([destroy(Cur) EXCEPT !.registered = FALSE, !.lastOp = "destroy"])

RemoveAIBot ==
    /\ registered
    /\ \E botId \in SeqSet(aiBots) :
          Becomes([removeAIBot(Cur, botId) EXCEPT !.lastOp = "removeAIBot"])

RemoveAllAIBots ==
    /\ registered
    /\ Becomes([removeAllAIBots(Cur) EXCEPT !.lastOp = "removeAllAIBots"])

\* wall-clock time passes: Date.now() grows by one unit
ClockAdvance ==
    Becomes([Cur EXCEPT !.idleTime = [c \in DOMAIN @ |-> Min(@[c] + 1, AFK_TIMEOUT)],
                        !.lastOp = "clock"])

\* The room under every interleaving of joins, leaves, inputs, ticks, timers,
\* AI management and teardown; nobody drives or asks to fire, and a client
\* sends its next command when the tick has taken the last one.
Next ==
    \/ AddPlayer
    \/ RemovePlayer
    \/ HandleInput({Cmd(FALSE, FALSE)}, 1)
    \/ Tick({}, {})
    \/ RestartTimeout
    \/ CleanupRooms
    \/ Shutdown
    \/ RemoveAIBot
    \/ RemoveAllAIBots
    \/ ClockAdvance

Spec == Init /\ [][Next]_vars

\* a step of the callback of the restart timer: nothing else lowers restartTimers
RestartFires == restartTimers > 0 /\ restartTimers' = restartTimers - 1

\* the restart timer of endRound is a setTimeout of the event loop: once set, it
\* fires
FairSpec == Spec /\ WF_restartTimers(RestartFires)

\* The room in combat: humans join and send commands that ask to fire, one
\* between two ticks, the
\* last AI of the new room may ask to fire in every tick, the geometry decides
\* every projectile's fate with that AI and the first human as the possible
\* victims, and rounds end and restart.
CombatNext ==
    \/ AddPlayer
    \/ HandleInput({Cmd(FALSE, TRUE)}, 1)
    \/ Tick({FIRST_AI_ID + MAX_PLAYERS - 1}, {FIRST_PLAYER_ID, FIRST_AI_ID + MAX_PLAYERS - 1})
    \/ RestartTimeout

CombatSpec == Init /\ [][CombatNext]_vars

\* The room with at most MIN_PLAYERS clients that drive and fire, that send up to a full queue of
\* commands between two ticks and one more, and that also send command
\* objects without their numeric fields; no projectile meets anything.
InputNext ==
    \/ Cardinality(clients) < MIN_PLAYERS /\ AddPlayer
    \/ HandleInput({Cmd(TRUE, FALSE), Cmd(TRUE, TRUE), MalformedCmd}, INPUT_QUEUE_LIMIT + 1)
    \/ Tick({}, {})
    \/ RestartTimeout

InputSpec == Init /\ [][InputNext]_vars

\* The room under joins, leaves, inputs, idling and kicks, ticks and round
\* restarts; nobody takes an AI out by hand and the room is not torn down.
MemberNext ==
    \/ AddPlayer
    \/ RemovePlayer
    \/ HandleInput({Cmd(FALSE, FALSE)}, 1)
    \/ Tick({}, {})
    \/ RestartTimeout
    \/ ClockAdvance

MemberSpec == Init /\ [][MemberNext]_vars

\* The room in combat with humans that also leave: as CombatNext, and a human,
\* dead or alive, disconnects.
QueueNext ==
    \/ AddPlayer
    \/ RemovePlayer
    \/ HandleInput({Cmd(FALSE, TRUE)}, 1)
    \/ Tick({FIRST_AI_ID + MAX_PLAYERS - 1}, {FIRST_PLAYER_ID, FIRST_AI_ID + MAX_PLAYERS - 1})
    \/ RestartTimeout

QueueSpec == Init /\ [][QueueNext]_vars

\* The room in which humans fall idle and send commands that do not fire, up
\* to a full queue between two ticks and one more, while the two youngest AIs
\* of the new room shoot at the first human, who dies and respawns.
FrameNext ==
    \/ AddPlayer
    \/ HandleInput({Cmd(FALSE, FALSE)}, INPUT_QUEUE_LIMIT + 1)
    \/ Tick({FIRST_AI_ID + MAX_PLAYERS - 2, FIRST_AI_ID + MAX_PLAYERS - 1}, {FIRST_PLAYER_ID})
    \/ ClockAdvance

FrameSpec == Init /\ [][FrameNext]_vars

\* The room with humans that join, ask to fire and fall idle: the ticks return
\* events, evict the idle and send snapshots; the projectiles fly on or
\* explode on the ground or on a cover.
RelayNext ==
    \/ AddPlayer
    \/ HandleInput({Cmd(FALSE, TRUE)}, 1)
    \/ Tick({}, {})
    \/ ClockAdvance

RelaySpec == Init /\ [][RelayNext]_vars

\* what generateCandidates and the scoring terms can make of one candidate
Candidates == [point : 0..MaxPoint, base : 0..MaxScore]

\* selectSpawnPoint: Math.random decides the candidates, which are different
\* points, here in the order of the line, and the pick among the top K
SelectSpawnPoint ==
    /\ \E candidates \in [1..SPAWN_CANDIDATE_COUNT -> Candidates] :
          /\ \A i \in 1..(SPAWN_CANDIDATE_COUNT - 1) :
                candidates[i].point < candidates[i + 1].point
          /\ \E pick \in topK(candidates, recentSpawns) :
                /\ selected' = <<candidates[pick].point>>
                /\ recentSpawns' = recordSpawn(recentSpawns, candidates[pick].point)
    /\ UNCHANGED <<gameVars, fieldVars, aiVars, turretVars>>

\* SpawnManager.reset
ResetSpawns ==
    /\ recentSpawns # <<>>
    /\ recentSpawns' = <<>>
    /\ UNCHANGED <<gameVars, fieldVars, aiVars, turretVars, selected>>

\* The spawn manager under every sequence of selections and resets.
SpawnNext == SelectSpawnPoint \/ ResetSpawns

SpawnSpec == Init /\ [][SpawnNext]_vars

\* the turret yaws that a command may ask for, far outside the limits included
Targets == (-MaxTarget)..MaxTarget

\* the gun pitches that a command may ask for: every pitch within the limits
\* and one far outside on either side
PitchTargets == (GUN_PITCH_MIN..GUN_PITCH_MAX) \cup {-MaxTarget, MaxTarget}

\* the ticks in which the turret covers its full travel, from one limit to the
\* other, at maxStep a tick
FullTravelTicks == (2 * TURRET_YAW_MAX) \div TURRET_TURN_RATE

\* a tick applies a command of the combatant with any two finite angles
ApplyTurret ==
    /\ \E yaw \in Targets, pitch \in PitchTargets :
          /\ tank' = updateTurret(tank, [turretYaw |-> yaw, gunPitch |-> pitch])
          /\ sameTicks' = IF tank.lastInput # <<>> /\ tank.lastInput[1].turretYaw = yaw
                          THEN Min(sameTicks + 1, FullTravelTicks)
                          ELSE 1
    /\ UNCHANGED <<gameVars, fieldVars, aiVars, recentSpawns, selected>>

\* the combatant respawns
RespawnTurret ==
    /\ tank.lastInput # <<>>
    /\ tank' = NewTank /\ sameTicks' = 0
    /\ UNCHANGED <<gameVars, fieldVars, aiVars, recentSpawns, selected>>

\* The turret and the gun of one combatant under every sequence of commanded
\* angles, with respawns in between.
TurretNext == ApplyTurret \/ RespawnTurret

TurretSpec == Init /\ [][TurretNext]_vars

\* a tick of the room calls update of the controller
UpdateAI ==
    /\ scene.alive => ai.seq < MaxSeq
    /\ LET u == update(ai, scene)
           target == findNearestEnemy(allPlayersOf(scene), SelfId)
       IN /\ ai' = u.ai
          /\ issued' = u.cmds
          /\ aimedTicks' = IF ~scene.alive THEN aimedTicks
                           ELSE IF target # <<>> /\ scene.aimError < aimThreshold
                           THEN Min(aimedTicks + TICK_INTERVAL, fireDelay)
                           ELSE 0
          /\ heldTicks' = IF ~scene.alive THEN heldTicks
                          ELSE IF u.ai.targetPlayerId # ai.targetPlayerId
                                  /\ u.ai.targetPlayerId # NoTarget
                          THEN 0
                          ELSE Min(heldTicks + TICK_INTERVAL, reactionTime)
    /\ aiOp' = "update"
    /\ UNCHANGED <<gameVars, fieldVars, turretVars, recentSpawns, selected, scene>>

\* the world moves on: the controller's tank is damaged, killed, respawned,
\* its gun reloads or has fired
BotChanges ==
    /\ \E hp \in 0..TANK_MAX_HP, reloadRemain \in {0, RELOAD_TIME} :
          /\ (hp # scene.hp) # (reloadRemain # scene.reloadRemain)
          /\ scene' = [scene EXCEPT !.hp = hp, !.alive = (hp > 0),
                                    !.reloadRemain = reloadRemain]
    /\ issued' = <<>> /\ aiOp' = "world"
    /\ UNCHANGED <<gameVars, fieldVars, turretVars, recentSpawns, selected, ai, aimedTicks, heldTicks>>

\* the world moves on: a human moves, dies or respawns
EnemyChanges ==
    /\ \E i \in 1..2, o \in Others :
          /\ o # scene.others[i]
          /\ (o.alive = scene.others[i].alive) \/ (o.dist = scene.others[i].dist)
          /\ scene' = [scene EXCEPT !.others[i] = o]
    /\ issued' = <<>> /\ aiOp' = "world"
    /\ UNCHANGED <<gameVars, fieldVars, turretVars, recentSpawns, selected, ai, aimedTicks, heldTicks>>

\* the world moves on: the turret comes onto the target or falls off it
AimChanges ==
    /\ \E aimError \in 0..aimThreshold :
          /\ aimError # scene.aimError
          /\ scene' = [scene EXCEPT !.aimError = aimError]
    /\ issued' = <<>> /\ aiOp' = "world"
    /\ UNCHANGED <<gameVars, fieldVars, turretVars, recentSpawns, selected, ai, aimedTicks, heldTicks>>

\* One AI controller among two humans: between its updates the world changes
\* in any way.
AINext == UpdateAI \/ BotChanges \/ EnemyChanges \/ AimChanges

AISpec == Init /\ [][AINext]_vars

\* the displacements of one tick, in parts
Displacements == {d * Parts : d \in (-MAX_STEP)..MAX_STEP}

\* a world tick moves the two tanks: step 1 for each that has a command, then
\* the collisions between tanks
MoveTick ==
    /\ fieldTicks < MaxMoves
    /\ \E input \in [1..2 -> {<<>>} \cup {<<d>> : d \in Displacements}] :
          position' = resolveTankTankCollisions(movedByInput(position, input))
    /\ fieldTicks' = fieldTicks + 1
    /\ UNCHANGED <<gameVars, turretVars, recentSpawns, selected, aiVars>>

\* world.reset: the tanks respawn
ResetField ==
    /\ fieldTicks > 0
    /\ position' = SpawnPositions /\ fieldTicks' = 0
    /\ UNCHANGED <<gameVars, turretVars, recentSpawns, selected, aiVars>>

\* Two live tanks on a line across the map with one cover, under every
\* sequence of commands.
FieldNext == MoveTick \/ ResetField

FieldSpec == Init /\ [][FieldNext]_vars

\* --------------------------------------------------------------- properties
Humans == Cardinality(clients)
AIs == Len(aiBots)
Total == Humans + AIs

\* the fields of the room and of its world
roomVars ==
    <<state, clients, aiBots, roundTimer, tickTimer, nextPlayerId, aiIdCounter,
      idleTime, lastAFKCheck, restartTimers, registered, players, projectiles,
      respawnQueue, currentTick, snapshotId, nextProjectileId, detached>>

\* the step is a call of addPlayer that returned a player id
Joined == lastOp' = "addPlayer" /\ joinResult' # <<0>>

\* C1: addPlayer returns null exactly when the room holds MAX_PLAYERS humans
\* and no AI is left to evict, and a rejected join changes nothing: no id is
\* consumed, no combatant added or removed, nothing sent, the lifecycle state
\* and the tick driver as before.
C1_RejectedJoin ==
    [][lastOp' = "addPlayer" =>
          /\ (joinResult' = <<0>>) <=> (Humans = MAX_PLAYERS /\ AIs = 0)
          /\ (joinResult' = <<0>>) =>
                (UNCHANGED roomVars /\ out' = <<>> /\ removals' = <<>>)]_vars

C1_Witness ==
    lastOp = "addPlayer" /\ joinResult = <<0>> /\ Humans = MAX_PLAYERS /\ AIs = 0

\* C2: a join into a room with humans + AI = MAX_PLAYERS and at least one AI
\* succeeds and evicts exactly one AI, the oldest: one human more, one AI
\* fewer, the total still MAX_PLAYERS.
C2_JoinEvictsOldestAI ==
    [][(lastOp' = "addPlayer" /\ Total = MAX_PLAYERS /\ AIs >= 1) =>
          /\ joinResult' = <<nextPlayerId>>
          /\ clients' = clients \cup {nextPlayerId}
          /\ nextPlayerId \notin clients
          /\ aiBots' = Tail(aiBots)
          /\ Ids(players') = (Ids(players) \ {Head(aiBots)}) \cup {nextPlayerId}
          /\ Humans' = Humans + 1
          /\ AIs' = AIs - 1
          /\ Total' = MAX_PLAYERS]_vars

C2_Witness ==
    /\ lastOp = "addPlayer"
    /\ joinResult = <<FIRST_PLAYER_ID>>
    /\ clients = {FIRST_PLAYER_ID}
    /\ aiBots = <<FIRST_AI_ID + 1, FIRST_AI_ID + 2>>
    /\ Ids(players) = {FIRST_PLAYER_ID, FIRST_AI_ID + 1, FIRST_AI_ID + 2}

\* C3 as stated: after construction, after every successful join and after
\* every leave or kick, humans + AI = MAX_PLAYERS.
C3_AlwaysFull ==
    /\ Total = MAX_PLAYERS
    /\ [][(Joined \/ removals' # <<>>) => Total' = MAX_PLAYERS]_vars

\* C3 amended: after construction and after every leave or kick, humans + AI =
\* MAX_PLAYERS (removePlayer backfills); a successful join does not backfill:
\* it adds the human, evicts one AI only when the room was at MAX_PLAYERS, and
\* adds no AI, so the total after it is MAX_PLAYERS if it was MAX_PLAYERS and
\* one more than before otherwise.
C3_FullAfterLeave ==
    /\ Total = MAX_PLAYERS
    /\ [][removals' # <<>> =>
             /\ Total' = MAX_PLAYERS
             /\ \A i \in 1..Len(removals') : removals'[i].total = MAX_PLAYERS]_vars
    /\ [][Joined =>
             /\ Humans' = Humans + 1
             /\ AIs' = IF Total >= MAX_PLAYERS THEN AIs - 1 ELSE AIs
             /\ Total' = IF Total >= MAX_PLAYERS THEN MAX_PLAYERS ELSE Total + 1]_vars

\* a human left and removePlayer backfilled the room with a new AI
C3_Witness ==
    /\ lastOp = "removePlayer"
    /\ removals # <<>>
    /\ Total = MAX_PLAYERS
    /\ AIs = MAX_PLAYERS
    /\ aiIdCounter > FIRST_AI_ID + MAX_PLAYERS

\* C4: a room starts in Warmup; a successful join in Warmup moves it to
\* InRound exactly when, after the join, humans >= MIN_PLAYERS or at least one
\* AI is in the room, and leaves it in Warmup otherwise.
C4_JoinStartsRound ==
    /\ state = Warmup
    /\ [][(Joined /\ state = Warmup) =>
             /\ state' \in {Warmup, InRound}
             /\ (state' = InRound) <=> (Humans' >= MIN_PLAYERS \/ AIs' >= 1)]_vars

\* a lone human joined a room without AIs, and the room is still in Warmup
C4_Witness ==
    /\ lastOp = "addPlayer"
    /\ joinResult # <<0>>
    /\ state = Warmup
    /\ Humans = 1
    /\ AIs = 0

\* C5: a removePlayer call (leave or AFK kick) made in InRound that leaves
\* fewer than MIN_PLAYERS humans ends in Warmup; every other removePlayer call
\* ends in the lifecycle state it started in.
C5_LeaveRule ==
    \A i \in 1..Len(removals) :
        removals[i].stateAfter =
            IF removals[i].stateBefore = InRound /\ removals[i].humans < MIN_PLAYERS
            THEN Warmup
            ELSE removals[i].stateBefore

\* an AFK kick in InRound sent the room back to Warmup
C5_Witness ==
    \E i \in 1..Len(removals) :
        /\ removals[i].kick
        /\ removals[i].stateBefore = InRound
        /\ removals[i].stateAfter = Warmup

\* the step is an execution of tick
Ticked == lastOp' = "tick"

\* the step is an execution of the restart callback
Restarted == lastOp' = "restartRound"

\* C6: InRound moves to RoundEnd in the first tick at which the tick time
\* accumulated in the round reaches the round duration, never earlier; the
\* round timer advances only in ticks executed in InRound (by one tick
\* interval) and every start of a round resets it to 0.
C6_RoundTimer ==
    /\ [](state = InRound => roundTimer < ROUND_DURATION)
    /\ [][(state # RoundEnd /\ state' = RoundEnd) =>
             /\ Ticked
             /\ state = InRound
             /\ roundTimer + TICK_INTERVAL >= ROUND_DURATION
             /\ roundTimer' = roundTimer + TICK_INTERVAL]_vars
    /\ [][(Ticked /\ state' = InRound) =>
             /\ state = InRound
             /\ roundTimer' = roundTimer + TICK_INTERVAL
             /\ roundTimer' < ROUND_DURATION]_vars
    /\ [][roundTimer' # roundTimer =>
             \/ Ticked /\ state = InRound /\ roundTimer' = roundTimer + TICK_INTERVAL
             \/ state # InRound /\ state' = InRound /\ roundTimer' = 0]_vars
    /\ [][(state # InRound /\ state' = InRound) => roundTimer' = 0]_vars

\* a tick has just ended the round at the round duration
C6_Witness ==
    /\ lastOp = "tick"
    /\ state = RoundEnd
    /\ roundTimer = ROUND_DURATION
    /\ restartTimers = 1

\* C7: every entry into RoundEnd schedules exactly one restart; the room
\* leaves RoundEnd only by that restart, which resets the world and leaves the
\* room in InRound if humans >= MIN_PLAYERS or at least one AI exists and in
\* Warmup otherwise; no join, leave, input or tick moves it out of RoundEnd;
\* and the room never stays in RoundEnd forever.
C7_RestartAfterRoundEnd ==
    /\ []((state = RoundEnd) <=> (restartTimers = 1))
    /\ [](restartTimers \in {0, 1})
    /\ [][(state = RoundEnd /\ state' # RoundEnd) => Restarted]_vars
    /\ [][Restarted =>
             /\ state = RoundEnd
             /\ restartTimers' = 0
             /\ currentTick' = 0
             /\ projectiles' = <<>>
             /\ respawnQueue' = <<>>
             /\ state' = IF Humans' >= MIN_PLAYERS \/ AIs' >= 1 THEN InRound ELSE Warmup
             /\ clients' = clients
             /\ aiBots' = aiBots]_vars
    /\ ((state = RoundEnd) ~> (state # RoundEnd))

\* the restart found one human and no AI, and left the room in Warmup
C7_Witness ==
    /\ lastOp = "restartRound"
    /\ state = Warmup
    /\ Humans = 1
    /\ AIs = 0
    /\ currentTick = 0

\* C8: right after the world reset of a restart the tick counter is 0, no
\* projectile exists, the respawn queue is empty, and every combatant that was
\* in the world is still in it, alive, at full health, with kills, deaths,
\* hits and shots at zero, AI included.
C8_WorldReset ==
    [][Restarted =>
          /\ currentTick' = 0
          /\ projectiles' = <<>>
          /\ respawnQueue' = <<>>
          /\ Ids(players) \subseteq Ids(players')
          /\ \A i \in 1..Len(players') :
                /\ players'[i].alive
                /\ players'[i].hp = TANK_MAX_HP
                /\ players'[i].kills = 0
                /\ players'[i].deaths = 0
                /\ players'[i].hits = 0
                /\ players'[i].shots = 0]_vars

\* a restart has reset a world in which shots had been fired
C8_Witness ==
    /\ lastOp = "restartRound"
    /\ nextProjectileId > 1
    /\ \E i \in 1..Len(players) : players[i].isBot
    /\ \E i \in 1..Len(players) : ~players[i].isBot

\* a round has ended on a world with a dead combatant waiting to respawn and a
\* kill on the scoreboard
C8_DirtyWorld ==
    /\ state = RoundEnd
    /\ restartTimers = 1
    /\ respawnQueue # <<>>
    /\ \E i \in 1..Len(players) : ~players[i].alive
    /\ \E i \in 1..Len(players) : players[i].kills > 0 /\ players[i].shots > 0

\* C9: no tick runs in RoundEnd: the tick driver is stopped, and no tick is
\* executed, from endRound to the restart.
C9_NoTickInRoundEnd ==
    /\ [](state = RoundEnd => ~tickTimer)
    /\ [][state = RoundEnd => ~Ticked]_vars

\* C10: once destroy() has run, the tick driver is stopped and stays stopped,
\* and no later callback executes a tick, changes the world or puts anything
\* back into the cleared collections.
C10_DestroyedStaysQuiet ==
    /\ [](~registered =>
             /\ ~tickTimer
             /\ clients = {}
             /\ players = <<>>
             /\ projectiles = <<>>)
    /\ [][~registered =>
             /\ ~Ticked
             /\ UNCHANGED <<players, projectiles, respawnQueue, currentTick, clients>>]_vars

\* The inactivity evictions of the last operation: the entries of removals
\* that kickPlayer made.
Kicked(log) == {log[i].id : i \in {j \in 1..Len(log) : log[j].kick}}

\* The step is a tick that runs the AFK check.
AFKCheckDue == lastAFKCheck + TICK_INTERVAL >= AFK_CHECK_INTERVAL

\* C11: a human is evicted for inactivity only by a tick that runs the AFK
\* check and only if, at that check, the time since its last input (or since
\* its join, if it sent none) is at least AFK_TIMEOUT.  An input and a join set
\* that time to 0, so a human whose inputs are less than AFK_TIMEOUT apart is
\* never evicted.  The AFK check never evicts an AI combatant: the evicted id is
\* a human client, and every AI of the room is still there after the check
\* unless the room was torn down to empty.
C11_KickOnlyWhenIdle ==
    /\ [][\A id \in Kicked(removals') :
              /\ Ticked /\ AFKCheckDue
              /\ id \in clients /\ id \notin SeqSet(aiBots)
              /\ idleTime[id] >= AFK_TIMEOUT]_vars
    /\ [][Ticked => SeqSet(aiBots) \subseteq SeqSet(aiBots')]_vars
    /\ [][lastOp' = "handleInput" =>
              \E id \in clients : idleTime' = [idleTime EXCEPT ![id] = 0]]_vars
    /\ [][Joined => idleTime'[joinResult'[1]] = 0]_vars
    /\ [][\A c \in clients \cap clients' :
              idleTime'[c] > idleTime[c] => lastOp' = "clock"]_vars

\* a tick's AFK check evicted an idle human while an active human and the AI stayed
C11_Witness ==
    /\ lastOp = "tick"
    /\ Kicked(removals) # {}
    /\ \E c \in clients : idleTime[c] < AFK_TIMEOUT
    /\ aiBots # <<>>

\* C12: a human that sends no input is evicted within AFK_CHECK_INTERVAL of
\* tick time after its idle time has reached AFK_TIMEOUT.  Only ticks advance
\* the time since the last AFK check, by TICK_INTERVAL each; that time stays
\* below AFK_CHECK_INTERVAL, because the tick that would reach it runs the
\* check and restarts the count; and the check removes every human whose idle
\* time is at least AFK_TIMEOUT.
C12_IdleHumanEvicted ==
    /\ [](lastAFKCheck \in 0..(AFK_CHECK_INTERVAL - TICK_INTERVAL))
    /\ [][lastAFKCheck' = IF Ticked
                          THEN IF AFKCheckDue THEN 0 ELSE lastAFKCheck + TICK_INTERVAL
                          ELSE lastAFKCheck]_vars
    /\ [][Ticked /\ AFKCheckDue =>
              \A c \in clients :
                  idleTime[c] >= AFK_TIMEOUT =>
                      /\ c \in Kicked(removals')
                      /\ c \notin clients'
                      /\ ~Has(players', c)]_vars

\* the AFK check of a tick evicted the last human of the room
C12_Witness ==
    /\ lastOp = "tick"
    /\ lastAFKCheck = 0
    /\ Kicked(removals) # {}
    /\ clients = {}

\* The positions in the messages of an operation that are addressed to id.
SentTo(msgs, id) == {i \in 1..Len(msgs) : msgs[i].to = id}

\* C13: a human evicted for inactivity is sent exactly one AFKKick notice, while
\* it is still a client, and the notice is the last message the room ever
\* sends it: in the tick of the eviction it gets, besides the notice, only the
\* PlayerLeft of humans evicted before it, never its own PlayerLeft, an event
\* or a snapshot; after the eviction it is no client, messages go to clients
\* only, and an id that left the clients never comes back.
C13_KickNoticeIsLast ==
    /\ [][\A id \in Kicked(removals') :
              LET mine == SentTo(out', id)
                  notice == {i \in mine : out'[i].type = "AFKKick"}
              IN /\ Cardinality(notice) = 1
                 /\ \A i \in mine \ notice :
                       /\ \A k \in notice : i < k
                       /\ out'[i].type = "PlayerLeft" /\ out'[i].a # id
                 /\ id \in clients /\ id \notin clients']_vars
    /\ [][\A i \in 1..Len(out') :
              /\ out'[i].to \in clients \cup clients'
              /\ out'[i].to \notin clients' => out'[i].to \in Kicked(removals')]_vars
    /\ [][clients' \subseteq clients \cup {nextPlayerId}
          /\ nextPlayerId' >= nextPlayerId]_vars
    /\ [](\A c \in clients : c < nextPlayerId)

\* a tick evicted a human and afterwards sent the snapshot of that tick to a
\* human that stayed
C13_Witness ==
    /\ lastOp = "tick"
    /\ \E id \in Kicked(removals), i, j \in 1..Len(out) :
          /\ out[i].to = id /\ out[i].type = "AFKKick"
          /\ i < j
          /\ out[j].type = "Snapshot"

\* The humans of the world that are alive and have no command queued: the
\* combatants for which the coming tick finds the queue empty (a live AI
\* queues a command at the start of every tick).
Starved == {i \in 1..Len(players) :
               ~players[i].isBot /\ players[i].alive /\ players[i].inputQueue = <<>>}

\* C14: in a tick that finds the queue of a live combatant empty, a combatant
\* with a last command is integrated with that command and fire set to false:
\* the command's movement flags drive the tank one more step, no shot is
\* fired, and the last command stays as it was, so a queued command with
\* fire=true gives one fire attempt however often it is replayed.  A combatant
\* that never received a command is not integrated: neither driven, nor
\* turned, nor fired.
C14_ReplayWithoutFire ==
    /\ [](\A i \in Starved :
             LET p == players[i]
             IN popInput(p) =
                   [player |-> p,
                    cmd |-> IF p.lastInput = <<>> THEN <<>>
                            ELSE <<[forward |-> p.lastInput[1].forward,
                                    turretYaw |-> p.lastInput[1].turretYaw,
                                    fire |-> FALSE,
                                    seq |-> p.lastInput[1].seq]>>])
    /\ [][Ticked =>
             \A i \in Starved :
                LET p == players[i]
                    q == Get(players', p.id)
                IN /\ Has(players', p.id)
                   /\ q.shots = p.shots
                   /\ q.lastInput = p.lastInput
                   /\ \A k \in 1..Len(projectiles') :
                         projectiles'[k].shooterId = p.id =>
                             projectiles'[k].id < nextProjectileId
                   /\ IF p.lastInput = <<>>
                      THEN q.odometer = p.odometer /\ q.turretYaw = p.turretYaw
                      ELSE /\ q.odometer = p.odometer
                                           + (IF p.lastInput[1].forward THEN 1 ELSE 0)
                           /\ q.turretYaw = IF p.lastInput[1].turretYaw = "number"
                                               /\ p.turretYaw = "number"
                                            THEN "number" ELSE "NaN"]_vars

\* after a restart a tick has replayed a driving command that asked to fire:
\* the tank was driven, its gun is loaded, and it has not fired
C14_Witness ==
    /\ lastOp = "tick"
    /\ \E i \in Starved :
          /\ players[i].lastInput # <<>>
          /\ players[i].lastInput[1].fire /\ players[i].lastInput[1].forward
          /\ players[i].odometer >= 1
          /\ players[i].reloadRemain = 0
          /\ players[i].shots = 0

\* C15: the input queue of a combatant never holds more than INPUT_QUEUE_LIMIT
\* commands.  An input leaves every queue as it was or appends one command to
\* one queue, and a full queue is left as it was, so the new command is
\* dropped and no older one displaced.  A tick takes from the non-empty queue
\* of a live combatant exactly its oldest command and makes it the last
\* applied one, so commands are applied in arrival order, one per tick.
C15_QueueBoundedFIFO ==
    /\ [](\A i \in 1..Len(players) : Len(players[i].inputQueue) <= INPUT_QUEUE_LIMIT)
    /\ [][lastOp' = "handleInput" =>
             /\ Ids(players') = Ids(players)
             /\ \A i \in 1..Len(players) :
                   LET old == players[i].inputQueue
                       new == Get(players', players[i].id).inputQueue
                   IN IF Len(old) >= INPUT_QUEUE_LIMIT THEN new = old
                      ELSE \/ new = old
                           \/ Len(new) = Len(old) + 1 /\ SubSeq(new, 1, Len(old)) = old
             /\ Cardinality({i \in 1..Len(players) :
                                Get(players', players[i].id).inputQueue
                                   # players[i].inputQueue}) <= 1]_vars
    /\ [][Ticked =>
             \A i \in 1..Len(players) :
                LET p == players[i]
                    q == Get(players', p.id)
                IN ~p.isBot /\ p.alive /\ p.inputQueue # <<>> /\ Has(players', p.id)
                   /\ q.alive
                   => /\ q.inputQueue = Tail(p.inputQueue)
                      /\ q.lastInput = <<Head(p.inputQueue)>>]_vars

\* a tick took the older of two different queued commands, the one that asked
\* to fire, and left the younger one in the queue
C15_Witness ==
    /\ lastOp = "tick"
    /\ \E i \in 1..Len(players) :
          /\ players[i].lastInput = <<Cmd(TRUE, TRUE)>>
          /\ players[i].inputQueue = <<Cmd(TRUE, FALSE)>>
          /\ players[i].shots = 1

\* The humans whose next command, the oldest of the queue, lacks its numeric
\* fields.
NextIsMalformed == {i \in 1..Len(players) :
                       /\ ~players[i].isBot /\ players[i].alive
                       /\ players[i].inputQueue # <<>>
                       /\ Head(players[i].inputQueue).turretYaw # "number"}

\* C16: a malformed input command is ignored: the tick that reaches it does not
\* apply it to the combatant, whose turret angle stays a number, and the
\* command applied before stays the one that is replayed.
C16_MalformedIgnored ==
    [][Ticked =>
          \A i \in NextIsMalformed :
             LET p == players[i]
                 q == Get(players', p.id)
             IN /\ q.lastInput = p.lastInput
                /\ p.turretYaw = "number" => q.turretYaw = "number"]_vars

\* Every event of a tick is relayed to every client alike; the properties read
\* the events from what the first client is sent after the step.
Observers == {c \in clients' : \A d \in clients' : c <= d}

\* The positions in the messages msgs of the events of type kind that were
\* relayed to client c.
Relayed(msgs, c, kind) ==
    {i \in 1..Len(msgs) : /\ msgs[i].to = c
                          /\ msgs[i].type = "GameEvent"
                          /\ msgs[i].a.eventType = kind}

\* The i-th player of the world as it is after the step (a step that removes
\* no player leaves every player at its place in the Map).
After(i) ==
    IF i <= Len(players') /\ players'[i].id = players[i].id
    THEN players'[i]
    ELSE Get(players', players[i].id)

\* The players that fire in the step.
Firing == {i \in 1..Len(players) :
              Has(players', players[i].id) /\ After(i).shots # players[i].shots}

\* C17: a combatant fires only when it is alive and its reload timer is 0, and
\* a fire sets the timer to RELOAD_TIME; the timer then falls by TICK_INTERVAL
\* a tick, and by nothing else but a respawn or a world reset, so the next fire
\* of the combatant is at least RELOAD_TIME / TICK_INTERVAL ticks later.  Every
\* fire makes one projectile, one fire event and one shot; a combatant that is
\* dead or reloading gets no projectile, no fire event and no shot.
C17_FireNeedsReload ==
    /\ [][Ticked =>
             /\ \A i \in 1..Len(players) :
                   LET p == players[i]
                       q == After(i)
                       fired == q.shots # p.shots
                   IN /\ Has(players', p.id)
                      /\ q.shots \in {p.shots, p.shots + 1}
                      /\ fired => /\ p.alive /\ p.reloadRemain = 0
                                  /\ q.reloadRemain = RELOAD_TIME - TICK_INTERVAL
                      /\ ~fired /\ (p.alive \/ ~q.alive) =>
                            q.reloadRemain = Max(0, p.reloadRemain - TICK_INTERVAL)
             /\ \A c \in Observers :
                   LET fires == Relayed(out', c, "fire")
                   IN /\ \A i \in Firing :
                            Cardinality({k \in fires : out'[k].a.a = players[i].id}) = 1
                      /\ Cardinality(fires) = Cardinality(Firing)
             /\ nextProjectileId' - nextProjectileId = Cardinality(Firing)]_vars
    /\ [][~Ticked /\ ~Restarted =>
             /\ nextProjectileId' = nextProjectileId
             /\ \A i \in 1..Len(players) :
                   Has(players', players[i].id) =>
                      /\ After(i).shots = players[i].shots
                      /\ After(i).reloadRemain = players[i].reloadRemain]_vars

\* a combatant has fired a second time, RELOAD_TIME after its first shot, with
\* no respawn or reset in between
C17_Witness ==
    /\ lastOp = "tick"
    /\ \E i \in 1..Len(players) :
          /\ players[i].shots = 2
          /\ players[i].deaths = 0
          /\ players[i].reloadRemain = RELOAD_TIME - TICK_INTERVAL

\* C18: between two ticks every projectile of the world is active with a TTL
\* above 0.  A tick lowers the TTL of every projectile it keeps by
\* TICK_INTERVAL, the tick that creates one included, nothing else changes a
\* projectile but a reset or a teardown, which remove them all, and ids are
\* not reused: so a projectile is gone at the latest PROJECTILE_TTL /
\* TICK_INTERVAL ticks after the tick that created it.
C18_ProjectilesLive ==
    /\ [](\A k \in 1..Len(projectiles) :
             /\ projectiles[k].active
             /\ projectiles[k].ttl > 0
             /\ projectiles[k].ttl <= PROJECTILE_TTL - TICK_INTERVAL
             /\ projectiles[k].id < nextProjectileId)
    /\ [][Ticked =>
             \A m \in 1..Len(projectiles') :
                LET old == {k \in 1..Len(projectiles) :
                               projectiles[k].id = projectiles'[m].id}
                IN IF projectiles'[m].id >= nextProjectileId
                   THEN projectiles'[m].ttl = PROJECTILE_TTL - TICK_INTERVAL
                   ELSE /\ old # {}
                        /\ \A k \in old :
                              projectiles'[m].ttl = projectiles[k].ttl - TICK_INTERVAL]_vars
    /\ [][~Ticked => projectiles' = projectiles \/ projectiles' = <<>>]_vars
    /\ [][nextProjectileId' >= nextProjectileId \/ projectiles' = <<>>]_vars

\* a tick purged a projectile that exploded and kept one that flies on
C18_Witness ==
    /\ lastOp = "tick"
    /\ projectiles # <<>>
    /\ \E c \in clients : \E k \in Relayed(out, c, "explode") :
          \A m \in 1..Len(projectiles) : projectiles[m].id # out[k].a.a

\* The number of projectiles the tick of the step works on that were not
\* fired by the i-th player: those in flight and those fired in the tick.
ForeignProjectiles(i) ==
    Cardinality({k \in 1..Len(projectiles) : projectiles[k].shooterId # players[i].id})
    + Cardinality(Firing \ {i})

\* C19: no combatant loses health to a projectile it fired itself, by direct
\* hit or by splash, and a projectile does at most the damage of one direct hit
\* to a combatant: what a combatant loses in a tick is at most
\* DIRECT_HIT_DAMAGE for each projectile of another shooter, so the combatant
\* hit directly gets no splash of the same projectile on top.  A projectile
\* hits at most one combatant directly, never its shooter, and is gone after
\* the tick of the hit.
C19_NoSelfNoDoubleDamage ==
    /\ [][Ticked =>
             \A i \in 1..Len(players) :
                Has(players', players[i].id) /\ players[i].alive =>
                   players[i].hp - After(i).hp
                      <= DIRECT_HIT_DAMAGE * ForeignProjectiles(i)]_vars
    /\ [][Ticked =>
             \A c \in Observers :
                LET hits == Relayed(out', c, "hit")
                IN \A k \in hits :
                   /\ \A m \in hits : out'[m].a.a = out'[k].a.a => m = k
                   /\ out'[k].a.a \notin Ids(projectiles')
                   /\ \A j \in 1..Len(projectiles) :
                         projectiles[j].id = out'[k].a.a =>
                            projectiles[j].shooterId # out'[k].a.b]_vars
    /\ [][~Ticked =>
             \A i \in 1..Len(players) :
                Has(players', players[i].id) => After(i).hp >= players[i].hp]_vars

\* a tick relayed the direct hit of a projectile in flight, and its target lives
\* on with the damage of one direct hit
C19_Witness ==
    /\ lastOp = "tick"
    /\ \E c \in clients : \E k \in Relayed(out, c, "hit") :
          /\ Has(players, out[k].a.b)
          /\ Get(players, out[k].a.b).alive
          /\ Get(players, out[k].a.b).hp = TANK_MAX_HP - DIRECT_HIT_DAMAGE

\* The shooters of the projectiles the tick of the step works on.
Shooters ==
    {projectiles[k].shooterId : k \in 1..Len(projectiles)}
    \cup {players[i].id : i \in Firing}

\* C20: a tick emits one death event for every combatant that it takes from
\* alive to not alive and none for any other combatant, one that was dead
\* already included; the event names the victim and as killer the shooter of
\* a projectile of that tick, who is not the victim; the victim's deaths go up
\* by one, and the kills of every combatant go up by the number of death
\* events that name it as killer.  Nothing but a tick and the reset of a
\* restart changes kills, deaths or who is alive.
C20_DeathAccounting ==
    /\ [][Ticked =>
             LET dying == {i \in 1..Len(players) : players[i].alive /\ ~After(i).alive}
             IN /\ Ids(players') = Ids(players)
                /\ \A i \in 1..Len(players) :
                      After(i).deaths = players[i].deaths + (IF i \in dying THEN 1 ELSE 0)
                /\ \A c \in Observers :
                      LET deaths == Relayed(out', c, "death")
                      IN /\ Cardinality(deaths) = Cardinality(dying)
                         /\ \A i \in dying :
                               \E k \in deaths :
                                  /\ out'[k].a.a = players[i].id
                                  /\ out'[k].a.b # players[i].id
                                  /\ out'[k].a.b \in Shooters
                         /\ \A i \in 1..Len(players) :
                               After(i).kills
                                  = players[i].kills
                                    + Cardinality({k \in deaths :
                                                      out'[k].a.b = players[i].id})]_vars
    /\ [][~Ticked /\ ~Restarted =>
             \A i \in 1..Len(players) :
                Has(players', players[i].id) =>
                   /\ After(i).kills = players[i].kills
                   /\ After(i).deaths = players[i].deaths
                   /\ After(i).alive = players[i].alive]_vars

\* a tick relayed the death of a combatant: the victim is dead with one death,
\* and the killer that the event names has one kill
C20_Witness ==
    /\ lastOp = "tick"
    /\ \E c \in clients : \E k \in Relayed(out, c, "death") :
          /\ Has(players, out[k].a.a) /\ Has(players, out[k].a.b)
          /\ ~Get(players, out[k].a.a).alive
          /\ Get(players, out[k].a.a).deaths = 1
          /\ Get(players, out[k].a.b).kills = 1

\* The entry of the respawn queue for combatant id, if there is one.
Waiting(queue, id) == {k \in 1..Len(queue) : queue[k].id = id}

\* The number of ticks that the respawn delay lasts.
RespawnTicks == RESPAWN_DELAY \div TICK_INTERVAL

\* C21: a combatant that dies in a tick is entered in the respawn queue with
\* RESPAWN_DELAY, and every tick, the tick of the death included, counts the
\* entry down by TICK_INTERVAL and nothing else changes it; a tick respawns a
\* combatant, and relays its respawn event, only when the entry had been
\* counted down RESPAWN_DELAY / TICK_INTERVAL times before, that is, in that
\* many ticks from the tick of the death on: the tick of the respawn event is
\* at least RESPAWN_DELAY / TICK_INTERVAL ticks after the tick of the death
\* event.  After the tick of its respawn event the combatant is alive with
\* full health.
C21_RespawnAfterDelay ==
    /\ [](\A k \in 1..Len(respawnQueue) :
             /\ Has(players, respawnQueue[k].id)
             /\ ~Get(players, respawnQueue[k].id).alive
             /\ respawnQueue[k].timer <= RESPAWN_DELAY - TICK_INTERVAL
             /\ Waiting(respawnQueue, respawnQueue[k].id) = {k})
    /\ [][Ticked =>
             /\ \A i \in 1..Len(players) :
                   LET p == players[i]
                       q == After(i)
                       old == Waiting(respawnQueue, p.id)
                       new == Waiting(respawnQueue', p.id)
                   IN Has(players', p.id) =>
                         /\ p.alive /\ ~q.alive =>
                               \E k \in new :
                                  respawnQueue'[k].timer = RESPAWN_DELAY - TICK_INTERVAL
                         /\ ~p.alive /\ ~q.alive =>
                               \E k \in old : \E m \in new :
                                  respawnQueue'[m].timer
                                     = respawnQueue[k].timer - TICK_INTERVAL
                         /\ ~p.alive /\ q.alive =>
                               /\ \E k \in old :
                                     respawnQueue[k].timer
                                        <= RESPAWN_DELAY - RespawnTicks * TICK_INTERVAL
                               /\ new = {}
                               /\ q.hp = TANK_MAX_HP
             /\ \A c \in Observers :
                   LET respawns == Relayed(out', c, "respawn")
                       revived == {i \in 1..Len(players) :
                                      /\ Has(players', players[i].id)
                                      /\ ~players[i].alive /\ After(i).alive}
                   IN /\ Cardinality(respawns) = Cardinality(revived)
                      /\ \A i \in revived :
                            \E k \in respawns : out'[k].a.a = players[i].id]_vars
    /\ [][~Ticked =>
             \A m \in 1..Len(respawnQueue') :
                \E k \in 1..Len(respawnQueue) : respawnQueue'[m] = respawnQueue[k]]_vars

\* a tick relayed the respawn event of a combatant that had died: it is alive
\* with full health and no longer waits in the respawn queue
C21_Witness ==
    /\ lastOp = "tick"
    /\ \E c \in clients : \E k \in Relayed(out, c, "respawn") :
          /\ Has(players, out[k].a.a)
          /\ Get(players, out[k].a.a).deaths = 1
          /\ Get(players, out[k].a.a).alive
          /\ Get(players, out[k].a.a).hp = TANK_MAX_HP
          /\ Waiting(respawnQueue, out[k].a.a) = {}

\* The amounts of damage that the world applies.
Damages == {SPLASH_DAMAGE, DIRECT_HIT_DAMAGE}

\* C22: the health of every combatant is between 0 and TANK_MAX_HP, and the
\* combatant is alive exactly when its health is above 0.  Damage applied to a
\* dead combatant returns the combatant unchanged and reports no death;
\* damage applied to a live one leaves its health in range and reports a
\* death exactly when the health reaches 0.  A tick leaves the health and the
\* deaths of a combatant that stays dead as they are.
C22_HealthInRange ==
    /\ [](\A i \in 1..Len(players) :
             LET p == players[i]
             IN /\ 0 <= p.hp /\ p.hp <= TANK_MAX_HP
                /\ p.alive <=> p.hp > 0
                /\ \A amount \in Damages :
                      LET d == takeDamage(p, amount)
                      IN /\ ~p.alive => d.player = p /\ ~d.died
                         /\ 0 <= d.player.hp /\ d.player.hp <= TANK_MAX_HP
                         /\ d.player.alive <=> d.player.hp > 0
                         /\ d.died <=> p.alive /\ ~d.player.alive)
    /\ [][Ticked =>
             \A i \in 1..Len(players) :
                Has(players', players[i].id) /\ ~players[i].alive /\ ~After(i).alive =>
                   /\ After(i).hp = players[i].hp
                   /\ After(i).deaths = players[i].deaths]_vars

\* a tick relayed the direct hit that killed a combatant: its health is 0 and
\* it is not alive, while another combatant is alive at full health
C22_Witness ==
    /\ lastOp = "tick"
    /\ \E c \in clients : \E k \in Relayed(out, c, "hit") :
          /\ Has(players, out[k].a.b)
          /\ Get(players, out[k].a.b).hp = 0
          /\ ~Get(players, out[k].a.b).alive
    /\ \E i \in 1..Len(players) : players[i].alive /\ players[i].hp = TANK_MAX_HP

C24_TurretWithinLimits ==
    /\ -TURRET_YAW_MAX <= tank.turretYaw /\ tank.turretYaw <= TURRET_YAW_MAX
    /\ GUN_PITCH_MIN <= tank.gunPitch /\ tank.gunPitch <= GUN_PITCH_MAX

\* the turret stands at its upper limit and the command just applied asks for
\* the lower limit, which is the shorter way round through the closed sector;
\* the pitch asked for is beyond the gun's upper limit
C24_Witness ==
    /\ tank.lastInput # <<>>
    /\ tank.turretYaw = TURRET_YAW_MAX
    /\ tank.lastInput[1].turretYaw < -PI
    /\ tank.lastInput[1].gunPitch > GUN_PITCH_MAX
    /\ tank.gunPitch = GUN_PITCH_MAX

\* C25: every snapshot that a tick sends to the first human carries a
\* snapshotId above the snapshotId of the snapshot that this human was sent
\* last, as long as it stays in the room.
C25_SnapshotIdIncreases ==
    [][\A k \in 1..Len(out') :
          out'[k].to = FIRST_PLAYER_ID /\ out'[k].type = "Snapshot" =>
             out'[k].a.snapshotId > lastSnapshot]_vars

\* What the messages msgs of the type kind carry to client c, in their order.
PayloadsTo(msgs, c, kind) ==
    LET sel == SelectSeq(msgs, LAMBDA m : m.to = c /\ m.type = kind)
    IN [i \in 1..Len(sel) |-> sel[i].a]

\* The tick counter after the step is a multiple of SNAPSHOT_INTERVAL.
SnapshotTick == currentTick' % SNAPSHOT_INTERVAL = 0

\* C26: a tick relays the events that the world's tick returned, each once
\* and in the world's order, to every human that is connected after the AFK
\* check of the tick and to nobody else; the messages of the AFK check come
\* before the events and the snapshots after them.  A tick whose tick counter
\* is a multiple of SNAPSHOT_INTERVAL raises the snapshotId by one and sends
\* every connected human one snapshot with that id and the human's own
\* lastProcessedSeq; any other tick sends no snapshot, and no step that is not
\* a tick sends an event or a snapshot.
C26_RelayAndSnapshots ==
    /\ [][Ticked =>
             /\ \A c \in clients' :
                   /\ PayloadsTo(out', c, "GameEvent") = returned'
                   /\ PayloadsTo(out', c, "Snapshot")
                         = IF SnapshotTick
                           THEN <<[snapshotId |-> snapshotId',
                                   lastProcessedSeq |-> Get(players', c).lastProcessedSeq]>>
                           ELSE <<>>
             /\ snapshotId' = snapshotId + (IF SnapshotTick THEN 1 ELSE 0)
             /\ \A k \in 1..Len(out') :
                   /\ out'[k].type \in {"GameEvent", "Snapshot"} => out'[k].to \in clients'
                   /\ out'[k].type = "GameEvent" =>
                         \A j \in 1..(k - 1) : out'[j].type # "Snapshot"
                   /\ out'[k].type \in {"AFKKick", "PlayerLeft"} =>
                         \A j \in 1..(k - 1) : out'[j].type \notin {"GameEvent", "Snapshot"}]_vars
    /\ [][~Ticked =>
             /\ returned' = <<>>
             /\ \A k \in 1..Len(out') : out'[k].type \notin {"GameEvent", "Snapshot"}]_vars

\* a snapshot tick evicted an idle human, relayed more than one event and sent
\* two humans snapshots with different lastProcessedSeq
C26_Witness ==
    /\ lastOp = "tick"
    /\ removals # <<>>
    /\ Len(returned) > 1
    /\ \E c \in clients, d \in clients :
          /\ PayloadsTo(out, c, "GameEvent") = returned
          /\ PayloadsTo(out, c, "Snapshot") # <<>>
          /\ PayloadsTo(out, d, "Snapshot") # <<>>
          /\ PayloadsTo(out, c, "Snapshot")[1].lastProcessedSeq
                # PayloadsTo(out, d, "Snapshot")[1].lastProcessedSeq

\* C27: every selectSpawnPoint returns a point, and the point lies outside the
\* cooldown radius of every point of recentSpawns, the selections before it
\* since the last reset, of which the oldest are dropped beyond
\* maxRecentSpawns.
C27_SpawnOutsideCooldown ==
    [][recentSpawns' # <<>> =>
          /\ selected' # <<>>
          /\ \A k \in 1..Len(recentSpawns) :
                distanceTo(selected'[1], recentSpawns[k]) >= SPAWN_COOLDOWN_RADIUS]_vars

\* the nearest live enemy of the controller in the present scene: <<>> or <<p>>
NearestNow == findNearestEnemy(allPlayersOf(scene), SelfId)

\* the step is an update of the live controller that found a target
UpdateWithTarget == aiOp' = "update" /\ scene.alive /\ NearestNow # <<>>

\* low health and a close threat, as the update sees them
Threatened == scene.hp < retreatHp /\ NearestNow[1].dist < retreatDist

\* C28 as stated: after the controller takes a target with another id than
\* its last one, none of its updates leaves it in Engage before reactionTime
\* of tick time has passed, and every update within that time leaves it in
\* Chase if the target is within engage range and in Patrol if it is beyond.
C28_HoldByRangeOnly ==
    [][UpdateWithTarget =>
          /\ ai'.state = Engage => heldTicks' >= reactionTime
          /\ ai'.targetPlayerId # NoTarget /\ heldTicks' < reactionTime =>
                ai'.state = IF NearestNow[1].dist > engageRange THEN Patrol ELSE Chase]_vars

\* C28, amended: as above, except that an update within that time leaves the
\* controller in Retreat when its health is below 30 and the target is closer
\* than 30.
C28_HoldThenEngage ==
    [][UpdateWithTarget =>
          /\ ai'.state = Engage => heldTicks' >= reactionTime
          /\ ai'.targetPlayerId # NoTarget /\ heldTicks' < reactionTime =>
                ai'.state = IF Threatened THEN Retreat
                            ELSE IF NearestNow[1].dist > engageRange THEN Patrol
                            ELSE Chase]_vars

\* an update in the middle of the hold left the controller in Chase, with its
\* target within engage range
C28_Witness ==
    /\ aiOp = "update" /\ scene.alive
    /\ ai.targetPlayerId # NoTarget
    /\ heldTicks = TICK_INTERVAL /\ heldTicks < reactionTime
    /\ ai.state = Chase
    /\ NearestNow # <<>> /\ NearestNow[1].dist <= engageRange

\* the live entries of the scene other than the controller's own
LiveEnemies ==
    {i \in 1..Len(allPlayersOf(scene)) :
        allPlayersOf(scene)[i].id # SelfId /\ allPlayersOf(scene)[i].alive}

\* C29: every update of a live controller leaves it in Patrol if no other
\* combatant is alive; in Retreat if its health is below 30 and the nearest
\* live enemy is closer than 30, hold or not; otherwise, once the hold has
\* run out, in Chase if that enemy is beyond engage range and in Engage if it
\* is within. The target is a live combatant other than the controller and
\* none such is nearer; the controller holds its id unless it retreats.
C29_StateBySituation ==
    [][aiOp' = "update" /\ scene.alive =>
          /\ (NearestNow = <<>>) = (LiveEnemies = {})
          /\ NearestNow = <<>> => ai'.state = Patrol /\ ai'.targetPlayerId = NoTarget
          /\ NearestNow # <<>> =>
                /\ NearestNow[1].alive /\ NearestNow[1].id # SelfId
                /\ \A i \in LiveEnemies : NearestNow[1].dist <= allPlayersOf(scene)[i].dist
                /\ Threatened => ai'.state = Retreat
                /\ ~Threatened => ai'.targetPlayerId = NearestNow[1].id
                /\ ~Threatened /\ heldTicks' >= reactionTime =>
                      ai'.state = IF NearestNow[1].dist > engageRange THEN Chase
                                  ELSE Engage]_vars

\* an update left the controller in Engage on the second human, the nearer of
\* two live ones
C29_Witness ==
    /\ aiOp = "update" /\ scene.alive
    /\ scene.others[1].alive /\ scene.others[2].alive
    /\ scene.others[2].dist < scene.others[1].dist
    /\ ai.state = Engage
    /\ ai.targetPlayerId = FIRST_PLAYER_ID + 1

ClampedTarget(t) == clampNumber(t.lastInput[1].turretYaw, -TURRET_YAW_MAX, TURRET_YAW_MAX)

\* C31: a tick that applies a command turns the turret by at most maxStep and
\* not away from the clamped target; once the same target has been commanded
\* for as many ticks in a row as the full travel takes, the turret stands at
\* the clamped target.
C31_TurretReachesTarget ==
    [][tank'.lastInput # <<>> /\ turretVars' # turretVars =>
          /\ abs(tank'.turretYaw - tank.turretYaw) <= TURRET_TURN_RATE
          /\ abs(ClampedTarget(tank') - tank'.turretYaw)
                <= abs(ClampedTarget(tank') - tank.turretYaw)
          /\ sameTicks' >= FullTravelTicks =>
                tank'.turretYaw = ClampedTarget(tank')]_vars

\* the step is a call of handleInput for the human id that queued cmd at the
\* tail of the queue of its combatant, or queued nothing
InputStepOf(id, queued) ==
    /\ idleTime' = [c \in DOMAIN idleTime \cup {id} |-> IF c = id THEN 0 ELSE idleTime[c]]
    /\ IF queued = <<>> THEN players' = players
       ELSE /\ Has(players, id)
            /\ players' = Put(players, [Get(players, id) EXCEPT
                                           !.inputQueue = Append(@, queued[1])])

\* the combatant of id takes one more command
Accepts(id) ==
    /\ Has(players, id) /\ Get(players, id).alive
    /\ Len(Get(players, id).inputQueue) < INPUT_QUEUE_LIMIT

\* C32: a call of handleInput refreshes the last-input time of the id it is
\* for, adds one command at the tail of the input queue of that id's
\* combatant if and only if the combatant exists, is alive and its queue is
\* not full, and changes nothing else: no other field of any combatant, no
\* projectile, no respawn entry, not the lifecycle state, the timers, the
\* counters, nor what is sent.
C32_HandleInputOnlyAppends ==
    [][lastOp' = "handleInput" =>
          /\ UNCHANGED <<state, clients, aiBots, roundTimer, tickTimer, nextPlayerId,
                         aiIdCounter, lastAFKCheck, restartTimers, registered,
                         projectiles, respawnQueue, currentTick, snapshotId,
                         nextProjectileId, detached>>
          /\ out' = <<>>
          /\ \E id \in clients :
                \/ Accepts(id) /\ \E cmd \in {Cmd(FALSE, FALSE)} : InputStepOf(id, <<cmd>>)
                \/ ~Accepts(id) /\ InputStepOf(id, <<>>)]_vars

\* the call of handleInput was for the only human of the room, who is dead:
\* its queue stays empty
C32_Witness ==
    /\ lastOp = "handleInput"
    /\ clients = {FIRST_PLAYER_ID}
    /\ Has(players, FIRST_PLAYER_ID)
    /\ ~Get(players, FIRST_PLAYER_ID).alive
    /\ Get(players, FIRST_PLAYER_ID).inputQueue = <<>>

\* the phase of update() that pushes an event of this type
Phase(e) ==
    IF e.eventType = "fire" THEN 1
    ELSE IF e.eventType = "respawn" THEN 3
    ELSE 2

\* C33: in the events that a world tick returned the fire events come first,
\* the hit, explode and death events next and the respawn events last; a hit
\* event is followed by the explode event of its projectile, at once or after
\* the death event of the combatant that was hit and nothing else; the deaths
\* that follow the explode event, those of its splash, are of other combatants.
C33_EventsInPhaseOrder ==
    /\ \A i, j \in 1..Len(returned) :
          i < j => Phase(returned[i]) <= Phase(returned[j])
    /\ \A i \in 1..Len(returned) :
          returned[i].eventType = "hit" =>
             \E j \in {i + 1, i + 2} :
                /\ j <= Len(returned)
                /\ returned[j].eventType = "explode"
                /\ returned[j].a = returned[i].a
                /\ j = i + 2 =>
                      /\ returned[i + 1].eventType = "death"
                      /\ returned[i + 1].a = returned[i].b
                /\ \A k \in (j + 1)..Len(returned) :
                      (\A m \in (j + 1)..k : returned[m].eventType = "death") =>
                         returned[k].a # returned[i].b

\* a tick returned a fire event and, after it, a hit event, the death event of
\* the combatant hit and the explode event of the projectile
C33_Witness ==
    \E f, h \in 1..Len(returned) :
       /\ f < h /\ h + 2 <= Len(returned)
       /\ returned[f].eventType = "fire"
       /\ returned[h].eventType = "hit"
       /\ returned[h + 1].eventType = "death" /\ returned[h + 1].a = returned[h].b
       /\ returned[h + 2].eventType = "explode" /\ returned[h + 2].a = returned[h].a

\* C34: at the end of every world tick each live tank is within the map:
\* |x| <= width / 2.
C34_InsideMap ==
    \A i \in 1..2 : -halfW <= position[i] /\ position[i] <= halfW

\* C35: while the room is registered the combatants of its world are the
\* connected humans together with the AI controllers, each once, no id is
\* both a human's and an AI's, and the world holds at most MAX_PLAYERS.
C35_WorldIsHumansAndAIs ==
    registered =>
       /\ Ids(players) = clients \cup SeqSet(aiBots)
       /\ clients \cap SeqSet(aiBots) = {}
       /\ Len(players) = Cardinality(clients) + Len(aiBots)
       /\ Cardinality(SeqSet(aiBots)) = Len(aiBots)
       /\ Len(players) <= MAX_PLAYERS

\* the room has been through a round restart and a kick and holds humans and
\* AIs side by side
C35_Witness ==
    /\ registered
    /\ clients # {} /\ aiBots # <<>>
    /\ state = InRound
    /\ nextPlayerId > FIRST_PLAYER_ID + MIN_PLAYERS
    /\ aiIdCounter > FIRST_AI_ID + MAX_PLAYERS
    /\ lastOp = "tick" /\ removals # <<>>

C37_NoHumanNoDriver ==
    registered /\ clients = {} => ~tickTimer

\* C38: when a join, a leave or a kick has completed and the room is in
\* Warmup, fewer than MIN_PLAYERS humans are connected and no AI is present;
\* a room with a human and an AI is not in Warmup.
C38_WarmupOnlyBelowStartRule ==
    /\ lastOp = "addPlayer" \/ lastOp = "removePlayer" \/ (lastOp = "tick" /\ removals # <<>>) =>
          (state = Warmup => Humans < MIN_PLAYERS /\ AIs = 0)
    /\ Humans >= 1 /\ AIs >= 1 => state # Warmup


\* C39: a combatant present in the world has exactly one entry in the respawn
\* queue when it is dead and none when it is alive, and the respawn queue
\* holds no entry for a combatant that is not in the world: a death enters
\* one entry, the respawn takes it out, and the removal of the combatant and
\* the reset of the world discard it.
C39_DeadIffQueued ==
    /\ \A i \in 1..Len(players) :
          Cardinality(Waiting(respawnQueue, players[i].id))
             = IF players[i].alive THEN 0 ELSE 1
    /\ \A k \in 1..Len(respawnQueue) : Has(players, respawnQueue[k].id)

\* a human left the room while another combatant was dead: the dead one is
\* still in the world with its one entry, and the queue holds nothing else
C39_Witness ==
    /\ lastOp = "removePlayer"
    /\ Len(respawnQueue) = 1
    /\ Has(players, respawnQueue[1].id)
    /\ ~Get(players, respawnQueue[1].id).alive
    /\ Get(players, respawnQueue[1].id).deaths = 1


\* C40: every removal of a human from the room, by disconnect or by
\* inactivity kick, comes with one logout record for that human, and the
\* kills, deaths, shots and hits written in it are those the combatant had
\* when the room took it out of the world.
C40_LogoutStatsAtLeave ==
    /\ Len(logouts) = Len(removals)
    /\ \A i \in 1..Len(removals) :
          \E k \in 1..Len(logouts) :
             /\ logouts[k].id = removals[i].id
             /\ logouts[k].stats = removals[i].stats

====
